---- MODULE Spec2Model ----
(***************************************************************************)
(* Model of the ITR profile automation pipeline:                           *)
(*   app/services/itr_service.py   fetch_itr_profile, retry_async,         *)
(*                                 spa_safe_goto_profile, _main_async      *)
(*   app/tasks/profile_tasks.py    fetch_itr_profile_task                  *)
(*   app/controllers/profile_controller.py  get_task_status                *)
(* One execution of fetch_itr_profile is modelled step by step, driven     *)
(* either by the CLI (_main_async) or by the background task.  The browser *)
(* and the portal are the environment: every Playwright call may succeed   *)
(* or raise, and the page content is chosen nondeterministically.          *)
(***************************************************************************)
EXTENDS Integers, Sequences, FiniteSets, TLC

\* ------------------------------------------------------------------------
\* Bounds
\* ------------------------------------------------------------------------
\* largest retry count (ScraperConfig.retries) explored; the default is 3
MaxRetries == 3

\* ------------------------------------------------------------------------
\* Program constants
\* ------------------------------------------------------------------------
\* ScraperConfig.retries default
DefaultRetries == 3
\* ScraperConfig.retry_backoff_base_ms default
retry_backoff_base_ms == 700
\* @celery_app.task(..., max_retries=3)
max_retries == 3

\* Python None, as a string distinct from the empty string
None == "None"

\* Python truthiness of an Optional[str]
Truthy(s) == s # None /\ s # ""

\* Python `a or b`
PyOr(a, b) == IF Truthy(a) THEN a ELSE b

\* ------------------------------------------------------------------------
\* Exceptions
\* ------------------------------------------------------------------------
\* classes that derive from Exception (caught by `except Exception`)
ExceptionTypes == {"ValueError", "PlaywrightError", "RuntimeError"}

\* classes that derive from BaseException only
BaseOnlyTypes == {"KeyboardInterrupt"}

NoExc == [type |-> "none", stage |-> "none", attempt |-> 0]

Exc(t, s, a) == [type |-> t, stage |-> s, attempt |-> a]

IsException(e) == e.type \in ExceptionTypes

\* the message of RuntimeError(reason) raised by do_login
ChallengeReason == "OTP/CAPTCHA or verification step detected; manual completion required."

\* ------------------------------------------------------------------------
\* Inputs
\* ------------------------------------------------------------------------
ArgUserIds == {None, "", "PANARG"}
EnvUserIds == {None, "PANENV"}
ArgPasswords == {None, "pwarg"}
EnvPasswords == {None, "pwenv"}
ArgDirs == {None, "/arg/profile"}
EnvDirs == {None, "/env/profile"}
Callers == {"cli", "task"}
\* --save-json: not given, or a path
SavePaths == {None, "profile.json"}

\* page.url values: the URL contains "profileDetail" only for "profile"
Urls == {"about:blank", "login", "dashboard", "profile"}

\* labels scraped by extract_profile_data, in the order of the JS `labels`
Labels == <<"Name of Organisation", "Name of Organization", "Name as per PAN",
            "Date of Incorporation", "PAN", "PAN Status", "Residential Status",
            "Type of Company", "Constitution of Business", "Email", "Mobile",
            "Address">>

\* the JS `fields` object for a few rendered pages: label -> non-empty value
EmptyFields == [l \in {} |-> ""]

PageFields ==
    { EmptyFields,
      [l \in {"Name of Organization"} |-> "ACME LTD"],
      [l \in {"Email", "Mobile"} |-> IF l = "Email" THEN "a@b.in" ELSE "99"],
      [l \in {"Name as per PAN", "PAN", "Constitution of Business"} |->
          IF l = "PAN" THEN "ABCDE1234F"
          ELSE IF l = "Name as per PAN" THEN "ACME LTD" ELSE "Company"] }

VARIABLES
    caller,        \* who invoked fetch_itr_profile: _main_async or the task
    args,          \* explicit arguments of fetch_itr_profile
    env,           \* os.environ entries read by fetch_itr_profile
    retries,       \* ScraperConfig.retries of this run
    cfg,           \* the resolved ScraperConfig
    pc,            \* position in the code
    context,       \* `context`: "none" (None), "open" or "closed"
    browser,       \* `browser`: "none" (None), "open" or "closed"
    calls,         \* number of calls of each primitive / stage function
    close_raised,  \* which close call of the finally block raised
    url,           \* page.url
    stage,         \* stage of the orchestrator
    i,             \* loop variable of retry_async
    last_exc,      \* last_exc of retry_async
    exc,           \* exception in flight inside retry_async's try
    attempt_log,   \* retry_async: result of every fn() call so far, in order
    retry_trace,   \* retry_async: calls of fn and on_retry, sleeps, and the
                   \* return or raise of the current call, in order
    nav,           \* spa_safe_goto_profile: page.url at entry and the
                   \* navigation calls of the current invocation
    profile,       \* dict returned by extract_profile_data
    primary,       \* result of the try body: returned record or raised error
    outcome,       \* what the caller of fetch_itr_profile gets
    exit_code,     \* return value of _main_async
    task,          \* Celery state and result of fetch_itr_profile_task
    snapshot,      \* the file at cfg.save_json_path as this run left it
    modal_at,      \* the checkpoint at which the modal handlers last ran
    log_tail,      \* the log records of the latest step that logged: those of
                   \* this run, and those of the same run given another password
    page,          \* the rendered document given to extract_profile_data
    wu,            \* one call of wait_until: clock, deadline, polls, result
    dl,            \* two consecutive sleeps of retry_async
    runs,          \* concurrent executions of fetch_itr_profile
    mh,            \* one call of a modal handler
    lg,            \* one call of do_login, step by step
    rq             \* one POST /process request

vars == <<caller, args, env, retries, cfg, pc, context, browser, calls,
          close_raised, url, stage, i, last_exc, exc, attempt_log, retry_trace, nav,
          profile, primary, outcome, exit_code, task, snapshot, modal_at,
          log_tail, page, wu, dl, runs, mh, lg, rq>>

inputVars == <<caller, args, env, retries>>
\* state of the functions that are analysed on their own
unitVars == <<page, wu, dl, runs, mh, lg, rq>>
\* of these, the state of the functions analysed call by call
callVars == <<mh, lg, rq>>
sessionVars == <<context, browser, close_raised>>
retryVars == <<i, last_exc, exc>>
NoNav == [active |-> FALSE, entry_url |-> "about:blank", page_goto |-> 0, hash_fallback |-> 0,
          steps |-> <<>>]
wrapperVars == <<exit_code, task>>
fileVars == <<snapshot>>
logVars == <<log_tail>>
modalVars == <<modal_at>>

NoCfg == [user_id |-> None, password |-> None, headless |-> None,
          user_data_dir |-> None, chrome_path |-> None, save_json_path |-> None]

NoProfile == [nameOfOrganisation |-> None, dateOfIncorporation |-> None,
              pan |-> None, panStatus |-> None, residentialStatus |-> None,
              typeOfCompany |-> None, email |-> None, mobile |-> None,
              address |-> None, raw |-> EmptyFields, title |-> None, url |-> None]

NoOutcome == [kind |-> "none", exc |-> NoExc, profile |-> NoProfile]

Returned(p) == [kind |-> "return", exc |-> NoExc, profile |-> p]

Raised(e) == [kind |-> "raise", exc |-> e, profile |-> NoProfile]

NoTask == [state |-> "PENDING", status |-> "none", message |-> "none"]

NoCalls == [launch_persistent_context |-> 0, launch |-> 0, new_context |-> 0,
            new_page |-> 0, context_close |-> 0, browser_close |-> 0,
            do_login |-> 0, goto_profile |-> 0, extract_profile_data |-> 0]

Called(f) == calls' = [calls EXCEPT ![f] = @ + 1]

NoPage == [present |-> FALSE]
NoSnapshot == [state |-> "absent", json |-> [t |-> "null", v |-> "", members |-> <<>>]]
NoWu == [pc |-> "idle", now |-> 0, end |-> 0, interval |-> 0, polls |-> <<>>,
         result |-> None]
NoSleep == [i |-> 0, jitter |-> 0, delay |-> 0]
NoDl == [pc |-> "idle", base |-> 0, attempts |-> 0, i |-> 0,
         prev |-> NoSleep, cur |-> NoSleep]
NoRuns == <<>>
NoMh == [handler |-> "none"]
NoLg == [pc |-> "idle"]
NoRq == [pc |-> "idle"]

\* bool(headless) for headless in (True, False)
PyBool(h) == IF h = "True" THEN "True" ELSE "False"

\* variant: the environment is consulted first
ResolveConfig_EnvFirst(a, e) ==
    [user_id        |-> PyOr(PyOr(e.ITR_USER_ID, a.user_id), ""),
     password       |-> PyOr(PyOr(e.ITR_PASSWORD, a.password), ""),
     headless       |-> IF a.headless = None THEN "True" ELSE PyBool(a.headless),
     user_data_dir  |-> PyOr(PyOr(e.USER_DATA_DIR, a.user_data_dir), None),
     chrome_path    |-> PyOr(PyOr(e.CHROME_PATH, a.chrome_path), None),
     save_json_path |-> a.save_json_path]

\* lines 485-492:
\* cfg = ScraperConfig(user_id=user_id or os.getenv("ITR_USER_ID") or "",
\*                     password=password or os.getenv("ITR_PASSWORD") or "",
\*                     headless=True if headless is None else bool(headless),
\*                     user_data_dir=user_data_dir or os.getenv("USER_DATA_DIR") or None,
\*                     chrome_path=chrome_path or os.getenv("CHROME_PATH") or None,
\*                     save_json_path=save_json_path)
ResolveConfig(a, e) ==
    [user_id        |-> PyOr(PyOr(a.user_id, e.ITR_USER_ID), ""),
     password       |-> PyOr(PyOr(a.password, e.ITR_PASSWORD), ""),
     headless       |-> IF a.headless = None THEN "True" ELSE PyBool(a.headless),
     user_data_dir  |-> PyOr(PyOr(a.user_data_dir, e.USER_DATA_DIR), None),
     chrome_path    |-> PyOr(PyOr(a.chrome_path, e.CHROME_PATH), None),
     save_json_path |-> a.save_json_path]

\* str(e)
StrOfExc(e) ==
    IF e.type = "RuntimeError" THEN ChallengeReason
    ELSE IF e.type = "ValueError" THEN "ITR_USER_ID and ITR_PASSWORD are required."
    ELSE "playwright error"

\* ------------------------------------------------------------------------
\* Log records: the format string and the values interpolated into it
\* ------------------------------------------------------------------------
NoLog == [own |-> <<>>, twin |-> [q \in {} |-> <<>>]]

\* the values a resolved password takes
Passwords == {"", "pwarg", "pwenv", "pwtwin"}

\* the config of the run that differs only in the password value
WithPassword(c, q) == [c EXCEPT !.password = q]

\* the runs that differ from the run of c only in the password value
Twins(c) == Passwords \ {c.password}

\* the twins that pass the credential test of line 494 exactly when c does,
\* and so take the steps of this run
InStepTwins(c) == {q \in Twins(c) : ~Truthy(q) = ~Truthy(c.password)}

\* the records of one step: those of this run and those of each twin
Emit(own, twin) == log_tail' = [own |-> own, twin |-> twin]

\* the records of a step that reads nothing of the config
EmitSame(recs) ==
    log_tail' = [own |-> recs, twin |-> [q \in InStepTwins(cfg) |-> recs]]

\* profile_tasks.py line 16
MsgTaskStart(a) == <<"[task] Starting ITR profile fetch for user: %s", a.user_id>>

\* variant: the start record shows the credentials
MsgStarting_WithPassword(c) ==
    <<"Starting login + profile fetch (user=%s, password=%s)", c.user_id, c.password>>

\* line 497
MsgStarting(c) == <<"Starting login + profile fetch (headless=%s)", c.headless>>

\* line 517
MsgPersistent(c) == <<"Using persistent profile: %s", c.user_data_dir>>

\* lines 559 and 582: the observers given to retry_async
MsgRetry(s, n, e) ==
    <<IF s = "login" THEN "Login attempt %s failed: %s. Retrying..."
      ELSE "Profile nav attempt %s failed: %s. Retrying...",
      ToString(n), StrOfExc(e)>>

\* line 601
MsgSaved(c) == <<"Saved profile JSON -> %s", c.save_json_path>>

\* lines 655, 661
MsgChallenge(e) == <<"Stopped due to portal challenge: %s", StrOfExc(e)>>
MsgFatal(e) == <<"Fatal error: %s", StrOfExc(e)>>

\* profile_tasks.py lines 21, 25, 31
MsgTaskDone(a) == <<"[task] Completed ITR profile fetch for user: %s", a.user_id>>
MsgTaskError(a, e) ==
    <<"[task] Error while fetching for %s: %s", a.user_id, StrOfExc(e)>>
MsgTaskMaxRetries(a) == <<"[task] Max retries exceeded for user: %s", a.user_id>>

\* the state of a run before its first step
Fresh ==
    /\ cfg = NoCfg
    /\ pc = "start"
    /\ context = "none"
    /\ browser = "none"
    /\ calls = NoCalls
    /\ close_raised = [context |-> FALSE, browser |-> FALSE]
    /\ url = "about:blank"
    /\ stage = "init"
    /\ i = 0
    /\ last_exc = NoExc
    /\ exc = NoExc
    /\ attempt_log = <<>>
    /\ retry_trace = <<>>
    /\ nav = NoNav
    /\ profile = NoProfile
    /\ primary = NoOutcome
    /\ outcome = NoOutcome
    /\ exit_code = -1
    /\ task = NoTask
    /\ snapshot = NoSnapshot
    /\ log_tail = NoLog
    /\ modal_at = "none"

\* the functions analysed on their own are not running
CallsIdle ==
    /\ mh = NoMh
    /\ lg = NoLg
    /\ rq = NoRq

UnitsIdle ==
    /\ page = NoPage
    /\ wu = NoWu
    /\ dl = NoDl
    /\ runs = NoRuns
    /\ CallsIdle

Init ==
    /\ caller \in Callers
    /\ args \in [user_id : ArgUserIds, password : ArgPasswords, user_data_dir : ArgDirs,
                 chrome_path : {None}, headless : {None, "True"}, save_json_path : SavePaths]
    \* the task calls fetch_itr_profile(user_id, password) only; _main_async
    \* always passes headless (line 643)
    /\ caller = "task" => args.user_data_dir = None
    \* the runs of the CLI explored are given --save-json
    /\ args.save_json_path = None <=> caller = "task"
    /\ args.headless = None <=> caller = "task"
    /\ env \in [ITR_USER_ID : EnvUserIds, ITR_PASSWORD : EnvPasswords,
                USER_DATA_DIR : EnvDirs, CHROME_PATH : {None}]
    /\ retries \in 1..MaxRetries
    /\ Fresh
    /\ UnitsIdle

\* ------------------------------------------------------------------------
\* What a step of the try body may raise.  Playwright errors derive from
\* Exception; a Ctrl-C of the CLI user arrives as KeyboardInterrupt.
\* ------------------------------------------------------------------------
Raisable == {"PlaywrightError"} \cup (IF caller = "cli" THEN {"KeyboardInterrupt"} ELSE {})

\* variant: an error of the try body reaches the caller at once
RaiseInTry_NoFinally(e) ==
    /\ primary' = Raised(e)
    /\ pc' = "fetch_done"

\* an exception leaves the try body (lines 511-605) and reaches `finally`
RaiseInTry(e) ==
    /\ primary' = Raised(e)
    /\ pc' = "finally_context"

\* `except Exception as e` of retry_async (line 78) catches e, or e passes through
RaiseInFn(e) ==
    IF IsException(e)
    THEN /\ exc' = e
         /\ pc' = "retry_except"
         /\ UNCHANGED primary
    ELSE /\ exc' = NoExc
         /\ RaiseInTry(e)

\* variant: the check fails only when both credentials are missing
CredsMissing_Both(c) == ~Truthy(c.user_id) /\ ~Truthy(c.password)

\* if not cfg.user_id or not cfg.password  (line 494)
CredsMissing(c) == ~Truthy(c.user_id) \/ ~Truthy(c.password)

\* variant: the persistent launch is taken whatever cfg.user_data_dir is
UsePersistent_Always(c) == TRUE

\* if cfg.user_data_dir  (line 516)
UsePersistent(c) == Truthy(c.user_data_dir)

\* lines 483-497: resolve the config, fail fast on missing credentials
Configure ==
    /\ pc = "start"
    /\ cfg' = ResolveConfig(args, env)
    /\ IF CredsMissing(cfg')
       THEN /\ outcome' = Raised(Exc("ValueError", "init", 0))
            /\ pc' = "fetch_done"
       ELSE /\ outcome' = outcome
            /\ pc' = "playwright"
    /\ LET recs(c) == (IF caller = "task" THEN <<MsgTaskStart(args)>> ELSE <<>>)
                      \o (IF CredsMissing(c) THEN <<>> ELSE <<MsgStarting(c)>>)
       IN  Emit(recs(cfg'), [q \in Twins(cfg') |-> recs(WithPassword(cfg', q))])
    /\ UNCHANGED <<inputVars, unitVars, modalVars, sessionVars, calls, url, stage, retryVars,
                   attempt_log, retry_trace, nav, profile, primary, wrapperVars, fileVars>>

\* line 505: async with async_playwright() as p  (before the try block)
AsyncPlaywrightStart ==
    /\ pc = "playwright"
    /\ \/ /\ pc' = "launch"
          /\ outcome' = outcome
       \/ /\ outcome' = Raised(Exc("PlaywrightError", "init", 0))
          /\ pc' = "fetch_done"
    /\ UNCHANGED <<inputVars, unitVars, modalVars, logVars, cfg, sessionVars, calls, url, stage, retryVars,
                   attempt_log, retry_trace, nav, profile, primary, wrapperVars, fileVars>>

\* lines 516-518: context = await chromium.launch_persistent_context(...)
LaunchPersistent ==
    /\ pc = "launch"
    /\ UsePersistent(cfg)
    /\ Called("launch_persistent_context")
    /\ \/ /\ context' = "open"
          /\ pc' = "new_page"
          /\ UNCHANGED primary
       \/ /\ RaiseInTry(Exc("PlaywrightError", "init", 0))
          /\ UNCHANGED context
    /\ LET recs(c) == <<MsgPersistent(c)>>
       IN  Emit(recs(cfg), [q \in InStepTwins(cfg) |-> recs(WithPassword(cfg, q))])
    /\ UNCHANGED <<inputVars, unitVars, modalVars, cfg, browser, close_raised, url, stage, retryVars,
                   attempt_log, retry_trace, nav, profile, outcome, wrapperVars, fileVars>>

\* lines 519-520: browser = await chromium.launch(**launch_kwargs)
LaunchBrowser ==
    /\ pc = "launch"
    /\ ~UsePersistent(cfg)
    /\ Called("launch")
    /\ \/ /\ browser' = "open"
          /\ pc' = "new_context"
          /\ UNCHANGED primary
       \/ /\ RaiseInTry(Exc("PlaywrightError", "init", 0))
          /\ UNCHANGED browser
    /\ UNCHANGED <<inputVars, unitVars, modalVars, logVars, cfg, context, close_raised, url, stage, retryVars,
                   attempt_log, retry_trace, nav, profile, outcome, wrapperVars, fileVars>>

\* line 521: context = await browser.new_context()
NewContext ==
    /\ pc = "new_context"
    /\ Called("new_context")
    /\ \/ /\ context' = "open"
          /\ pc' = "new_page"
          /\ UNCHANGED primary
       \/ /\ RaiseInTry(Exc("PlaywrightError", "init", 0))
          /\ UNCHANGED context
    /\ UNCHANGED <<inputVars, unitVars, modalVars, logVars, cfg, browser, close_raised, url, stage, retryVars,
                   attempt_log, retry_trace, nav, profile, outcome, wrapperVars, fileVars>>

\* lines 523-530: context.route(...), page = await context.new_page()
NewPage ==
    /\ pc = "new_page"
    /\ Called("new_page")
    /\ \/ /\ stage' = "login"
          /\ pc' = "retry_async"
          /\ UNCHANGED primary
       \/ /\ RaiseInTry(Exc("PlaywrightError", "init", 0))
          /\ UNCHANGED stage
    /\ UNCHANGED <<inputVars, unitVars, modalVars, logVars, cfg, sessionVars, url, retryVars,
                   attempt_log, retry_trace, nav, profile, outcome, wrapperVars, fileVars>>

\* ------------------------------------------------------------------------
\* retry_async (lines 68-86)
\* ------------------------------------------------------------------------
Max(a, b) == IF a >= b THEN a ELSE b

\* variant: each stage is given one attempt more
Attempts_OneMore(s) == IF s = "login" THEN retries + 1 ELSE Max(2, retries - 1) + 1

\* attempts=cfg.retries (line 557); attempts=max(2, cfg.retries - 1) (line 580)
Attempts(s) == IF s = "login" THEN retries ELSE Max(2, retries - 1)

\* an entry of retry_trace
Event(ev, n, e) == [ev |-> ev, n |-> n, exc |-> e]

\* first position of fn(): do_login (line 534) or goto_profile (line 564)
FnEntry(s) == IF s = "login" THEN "login_goto" ELSE "nav_modals"

\* variant: off-by-one, the loop gives up one attempt early
RetryExhausted_Early(n, attempts) == n >= attempts - 1

\* if i == attempts: break  (line 80)
RetryExhausted(n, attempts) == n = attempts

\* lines 74-75: last_exc = None; for i in range(1, attempts + 1)
\* (attempts >= 1 here, so the first iteration always runs)
RetryAsyncBegin ==
    /\ pc = "retry_async"
    /\ i' = 1
    /\ last_exc' = NoExc
    /\ exc' = NoExc
    /\ attempt_log' = <<>>
    /\ retry_trace' = <<Event("begin", Attempts(stage), NoExc)>>
    /\ pc' = "call_fn"
    /\ UNCHANGED <<inputVars, unitVars, modalVars, logVars, cfg, sessionVars, calls, url, stage,
                   nav, profile, primary, outcome, wrapperVars, fileVars>>

\* line 77: return await fn()  -- the call of do_login / goto_profile
CallFn ==
    /\ pc = "call_fn"
    /\ Called(IF stage = "login" THEN "do_login" ELSE "goto_profile")
    /\ pc' = FnEntry(stage)
    /\ retry_trace' = Append(retry_trace, Event("fn", i, NoExc))
    /\ UNCHANGED <<inputVars, unitVars, modalVars, logVars, cfg, sessionVars, url, stage, retryVars,
                   attempt_log, nav, profile, primary, outcome, wrapperVars, fileVars>>

\* variant: the observer is called and the sleep is taken before the test
\* of the attempt number
RetryExcept_ObservesLast ==
    /\ pc = "retry_except"
    /\ last_exc' = exc
    /\ exc' = NoExc
    /\ attempt_log' = Append(attempt_log, exc.type)
    /\ IF RetryExhausted(i, Attempts(stage))
       THEN /\ retry_trace' = retry_trace \o <<Event("on_retry", i, exc),
                                                Event("sleep", i, NoExc),
                                                Event("raise", i, exc)>>
            /\ RaiseInTry(exc)
            /\ i' = i
       ELSE /\ retry_trace' = retry_trace \o <<Event("on_retry", i, exc),
                                                Event("sleep", i, NoExc)>>
            /\ i' = i + 1
            /\ pc' = "call_fn"
            /\ UNCHANGED primary
    /\ IF RetryExhausted(i, Attempts(stage))
       THEN UNCHANGED log_tail
       ELSE EmitSame(<<MsgRetry(stage, i, exc)>>)
    /\ UNCHANGED <<inputVars, unitVars, modalVars, cfg, sessionVars, calls, url, stage,
                   nav, profile, outcome, wrapperVars, fileVars>>

\* lines 78-86: except Exception as e: last_exc = e; break and re-raise when
\* i == attempts, else on_retry(i, e), sleep and run the next iteration
RetryExcept ==
    /\ pc = "retry_except"
    /\ last_exc' = exc
    /\ exc' = NoExc
    /\ attempt_log' = Append(attempt_log, exc.type)
    /\ IF RetryExhausted(i, Attempts(stage))
       THEN /\ retry_trace' = Append(retry_trace, Event("raise", i, exc))
            /\ RaiseInTry(exc)
            /\ i' = i
       ELSE /\ retry_trace' = retry_trace \o <<Event("on_retry", i, exc),
                                                Event("sleep", i, NoExc)>>
            /\ i' = i + 1
            /\ pc' = "call_fn"
            /\ UNCHANGED primary
    /\ IF RetryExhausted(i, Attempts(stage))
       THEN UNCHANGED log_tail
       ELSE EmitSame(<<MsgRetry(stage, i, exc)>>)
    /\ UNCHANGED <<inputVars, unitVars, modalVars, cfg, sessionVars, calls, url, stage,
                   nav, profile, outcome, wrapperVars, fileVars>>

\* ------------------------------------------------------------------------
\* do_login (lines 533-553)
\* ------------------------------------------------------------------------
\* lines 534-535: page.goto(cfg.login_url, ...); page.wait_for_timeout(400)
LoginGoto ==
    /\ pc = "login_goto"
    /\ \/ /\ url' = "login"
          /\ pc' = "login_user_id"
          /\ UNCHANGED <<exc, primary>>
       \/ \E t \in Raisable :
             /\ RaiseInFn(Exc(t, "login", i))
             /\ UNCHANGED url
    /\ UNCHANGED <<inputVars, unitVars, modalVars, logVars, cfg, sessionVars, calls, stage, i, last_exc,
                   attempt_log, retry_trace, nav, profile, outcome, wrapperVars, fileVars>>

\* line 537: robust_fill_user_id_and_continue(page, cfg); selector misses are
\* soft, an error of wait_for_selector / query_selector other than a timeout
\* propagates
LoginUserId ==
    /\ pc = "login_user_id"
    /\ \/ /\ pc' = "login_password"
          /\ UNCHANGED <<exc, primary>>
       \/ \E t \in Raisable : RaiseInFn(Exc(t, "login", i))
    /\ \E typed \in BOOLEAN :
          \* lines 165, 198
          LET recs == <<<<"Filling User ID...">>>>
                         \o (IF typed THEN <<>>
                             ELSE <<<<"Typing UID failed, injecting value: %s",
                                     "playwright error">>>>)
          IN  EmitSame(recs)
    /\ UNCHANGED <<inputVars, unitVars, modalVars, cfg, sessionVars, calls, url, stage, i, last_exc,
                   attempt_log, retry_trace, nav, profile, outcome, wrapperVars, fileVars>>

\* lines 538-545: wait for the password field; on PlaywrightTimeoutError the
\* step is skipped, else robust_fill_password_and_submit runs and the portal
\* stays on the login page or moves to the dashboard
LoginPassword ==
    /\ pc = "login_password"
    /\ \/ /\ pc' = "login_modals"
          /\ url' \in {url, "dashboard"}
          /\ UNCHANGED <<exc, primary>>
       \/ \E t \in Raisable :
             /\ RaiseInFn(Exc(t, "login", i))
             /\ UNCHANGED url
    /\ \E seen \in BOOLEAN :
          \* lines 234, 545
          LET recs == IF seen THEN <<<<"Filling Password...">>>>
                      ELSE <<<<"Password field not seen (maybe already logged in via persistent session).">>>>
          IN  EmitSame(recs)
    /\ UNCHANGED <<inputVars, unitVars, modalVars, cfg, sessionVars, calls, stage, i, last_exc,
                   attempt_log, retry_trace, nav, profile, outcome, wrapperVars, fileVars>>

\* lines 547-549: both modal handlers (they never raise), wait_for_timeout(700)
LoginModals ==
    /\ pc = "login_modals"
    /\ modal_at' = "post_login"
    /\ \/ /\ pc' = "login_blockers"
          /\ UNCHANGED <<exc, primary>>
       \/ \E t \in Raisable : RaiseInFn(Exc(t, "login", i))
    /\ UNCHANGED <<inputVars, unitVars, logVars, cfg, sessionVars, calls, url, stage, i, last_exc,
                   attempt_log, retry_trace, nav, profile, outcome, wrapperVars, fileVars>>

\* detect_2fa_blockers (lines 352-369): a reason when the body text matches
\* one of the patterns, None otherwise (also when page.evaluate raised)
detect_2fa_blockers(bodyHasChallenge) ==
    IF bodyHasChallenge THEN ChallengeReason ELSE None

\* lines 551-553: reason = await detect_2fa_blockers(page);
\* if reason: raise RuntimeError(reason); else do_login returns and with it
\* retry_async (line 77), and the navigate stage begins (line 578)
LoginBlockers ==
    /\ pc = "login_blockers"
    /\ \E bodyHasChallenge \in BOOLEAN :
          IF Truthy(detect_2fa_blockers(bodyHasChallenge))
          THEN /\ RaiseInFn(Exc("RuntimeError", "login", i))
               /\ UNCHANGED <<stage, attempt_log, retry_trace>>
          ELSE /\ attempt_log' = Append(attempt_log, "ok")
               /\ retry_trace' = Append(retry_trace, Event("return", i, NoExc))
               /\ stage' = "navigate"
               /\ pc' = "retry_async"
               /\ UNCHANGED <<exc, primary>>
    /\ UNCHANGED <<inputVars, unitVars, modalVars, logVars, cfg, sessionVars, calls, url, i, last_exc,
                   nav, profile, outcome, wrapperVars, fileVars>>

\* ------------------------------------------------------------------------
\* goto_profile (lines 563-576) and spa_safe_goto_profile (lines 309-343)
\* ------------------------------------------------------------------------
\* variant: the short-circuit of line 313 is never taken
AlreadyOnProfile_Never(u) == FALSE

\* "profileDetail" in (page.url or "")  (lines 313, 334)
AlreadyOnProfile(u) == u = "profile"

\* where page.goto(cfg.profile_url) can land: the profile page, or the login
\* page when the portal redirects an unauthenticated session
GotoProfileLands == {"profile", "login"}

\* lines 310-311: spa_safe_goto_profile begins with the two modal handlers;
\* they swallow every error and do not navigate
NavModals ==
    /\ pc = "nav_modals"
    /\ nav' = [active |-> TRUE, entry_url |-> url, page_goto |-> 0, hash_fallback |-> 0,
               steps |-> <<"modals">>]
    /\ modal_at' = "pre_navigation"
    /\ pc' = "nav_url_check"
    /\ UNCHANGED <<inputVars, unitVars, logVars, cfg, sessionVars, calls, url, stage, retryVars,
                   attempt_log, retry_trace, profile, primary, outcome, wrapperVars, fileVars>>

\* lines 313-315: if "profileDetail" in page.url: return
NavUrlCheck ==
    /\ pc = "nav_url_check"
    /\ pc' = IF AlreadyOnProfile(url) THEN "nav_returned" ELSE "nav_goto"
    /\ nav' = [nav EXCEPT !.steps = Append(@, "url_check")]
    /\ UNCHANGED <<inputVars, unitVars, modalVars, logVars, cfg, sessionVars, calls, url, stage, retryVars,
                   attempt_log, retry_trace, profile, primary, outcome, wrapperVars, fileVars>>

\* lines 319-322: await page.goto(cfg.profile_url, ...); any Exception is
\* caught and leads to the hash-change fallback
NavGoto ==
    /\ pc = "nav_goto"
    /\ \/ /\ url' \in GotoProfileLands
          /\ nav' = [nav EXCEPT !.page_goto = @ + 1, !.steps = Append(@, "goto")]
          /\ pc' = "nav_arrival"
       \/ /\ url' = url
          /\ nav' = [nav EXCEPT !.page_goto = @ + 1, !.steps = Append(@, "goto_raised")]
          /\ pc' = "nav_hash"
    \* lines 318, 322
    /\ LET recs == <<<<"Navigating to profile...">>>>
                      \o (IF pc' = "nav_hash"
                          THEN <<<<"Direct goto failed (non-fatal): %s", "playwright error">>>>
                          ELSE <<>>)
       IN  EmitSame(recs)
    /\ UNCHANGED <<inputVars, unitVars, modalVars, cfg, sessionVars, calls, stage, retryVars,
                   attempt_log, retry_trace, profile, primary, outcome, wrapperVars, fileVars>>

\* variant: an error of the hash-change fallback leaves the navigator
NavHashFallback_Propagates ==
    /\ pc = "nav_hash"
    /\ \/ /\ url' \in {"profile", url}
          /\ nav' = [nav EXCEPT !.hash_fallback = @ + 1, !.steps = Append(@, "hash")]
          /\ pc' = "nav_arrival"
          /\ UNCHANGED <<exc, primary>>
       \/ /\ url' = url
          /\ nav' = [nav EXCEPT !.hash_fallback = @ + 1, !.steps = Append(@, "hash_raised")]
          /\ RaiseInFn(Exc("PlaywrightError", "navigate", i))
    /\ UNCHANGED <<inputVars, unitVars, modalVars, logVars, cfg, sessionVars, calls, stage, i,
                   last_exc, attempt_log, retry_trace, profile, outcome, wrapperVars, fileVars>>

\* lines 324-327: window.location.hash = "#/dashboard/myProfile/profileDetail";
\* a failure of page.evaluate is swallowed
NavHashFallback ==
    /\ pc = "nav_hash"
    /\ \/ /\ url' \in {"profile", url}
          /\ nav' = [nav EXCEPT !.hash_fallback = @ + 1, !.steps = Append(@, "hash")]
       \/ /\ url' = url
          /\ nav' = [nav EXCEPT !.hash_fallback = @ + 1, !.steps = Append(@, "hash_raised")]
    /\ pc' = "nav_arrival"
    /\ UNCHANGED <<inputVars, unitVars, modalVars, logVars, cfg, sessionVars, calls, stage, retryVars,
                   attempt_log, retry_trace, profile, primary, outcome, wrapperVars, fileVars>>

\* lines 329-343: modal handlers again, then wait_until(on_profile, 20000);
\* a miss is logged only, and the navigator returns
NavArrival ==
    /\ pc = "nav_arrival"
    /\ modal_at' = "post_navigation"
    /\ \E ok \in BOOLEAN :
          nav' = [nav EXCEPT !.steps = @ \o <<"modals", IF ok THEN "poll" ELSE "poll_timeout">>]
    /\ pc' = "nav_returned"
    /\ UNCHANGED <<inputVars, unitVars, logVars, cfg, sessionVars, calls, url, stage, retryVars,
                   attempt_log, retry_trace, profile, primary, outcome, wrapperVars, fileVars>>

\* lines 566-575, after spa_safe_goto_profile returned:
\* ok = await wait_until(query_selector(...), 20000); if not ok one more
\* page.goto(cfg.profile_url) whose failure is swallowed
NavConfirm ==
    /\ pc = "nav_returned"
    /\ nav' = NoNav
    /\ \E ok \in BOOLEAN :
          IF ok
          THEN url' = url
          ELSE url' \in GotoProfileLands \cup {url}
    /\ pc' = "nav_idle"
    /\ UNCHANGED <<inputVars, unitVars, modalVars, logVars, cfg, sessionVars, calls, stage, retryVars,
                   attempt_log, retry_trace, profile, primary, outcome, wrapperVars, fileVars>>

\* line 576: await page.wait_for_timeout(cfg.idle_wait_ms); then goto_profile
\* returns and with it retry_async (line 77), and extraction begins (line 586)
NavIdle ==
    /\ pc = "nav_idle"
    /\ \/ /\ attempt_log' = Append(attempt_log, "ok")
          /\ retry_trace' = Append(retry_trace, Event("return", i, NoExc))
          /\ stage' = "extract"
          /\ pc' = "extract"
          /\ UNCHANGED <<exc, primary>>
       \/ \E t \in Raisable :
             /\ RaiseInFn(Exc(t, "navigate", i))
             /\ UNCHANGED <<stage, attempt_log, retry_trace>>
    /\ UNCHANGED <<inputVars, unitVars, modalVars, logVars, cfg, sessionVars, calls, url, i, last_exc,
                   nav, profile, outcome, wrapperVars, fileVars>>

\* ------------------------------------------------------------------------
\* extract_profile_data (lines 372-463)
\* ------------------------------------------------------------------------
\* document.title of the portal pages
DocumentTitle == "e-Filing"

\* JS: fields[l], undefined (falsy) when the label was not found
Field(f, l) == IF l \in DOMAIN f THEN f[l] ELSE ""

\* JS: a || b
JsOr(a, b) == IF a # "" THEN a ELSE b

\* lines 437-450: the object returned by page.evaluate
CanonicalRecord(f, t, u) ==
    [nameOfOrganisation  |-> JsOr(Field(f, "Name of Organisation"),
                                  JsOr(Field(f, "Name of Organization"),
                                       Field(f, "Name as per PAN"))),
     dateOfIncorporation |-> Field(f, "Date of Incorporation"),
     pan                 |-> Field(f, "PAN"),
     panStatus           |-> Field(f, "PAN Status"),
     residentialStatus   |-> Field(f, "Residential Status"),
     typeOfCompany       |-> JsOr(Field(f, "Type of Company"),
                                  Field(f, "Constitution of Business")),
     email               |-> Field(f, "Email"),
     mobile              |-> Field(f, "Mobile"),
     address             |-> Field(f, "Address"),
     raw                 |-> f,
     title               |-> JsOr(t, ""),
     url                 |-> u]

\* line 459: not profile.get("pan") and not profile.get("nameOfOrganisation")
NoKeyFields(p) == p.pan = "" /\ p.nameOfOrganisation = ""

\* variant: the strict policy, an empty extraction is a hard failure
ExtractResult_Strict(p) ==
    IF NoKeyFields(p) THEN Raised(Exc("RuntimeError", "extract", 0)) ELSE Returned(p)

\* lines 459-463: the empty case is only logged; the record is returned
\* in both cases
ExtractResult(p) == Returned(p)

\* line 586: profile = await extract_profile_data(page).  wait_for_timeout / wait_for_selector / page.evaluate may raise
\* (only PlaywrightTimeoutError of wait_for_selector is caught); extraction
\* is outside retry_async, so the error goes straight to `finally`
Extract ==
    /\ pc = "extract"
    /\ Called("extract_profile_data")
    /\ modal_at' = "pre_extraction"
    /\ \/ \E f \in PageFields :
             /\ profile' = CanonicalRecord(f, DocumentTitle, url)
             /\ IF ExtractResult(profile').kind = "return"
                THEN /\ pc' = "save_json"
                     /\ UNCHANGED primary
                ELSE /\ primary' = ExtractResult(profile')
                     /\ pc' = "finally_context"
       \/ \E t \in Raisable :
             /\ RaiseInTry(Exc(t, "extract", 0))
             /\ UNCHANGED profile
    /\ LET recs == <<<<"Waiting for profile content to render...">>>>
                    \o (IF profile' = profile THEN <<>>
                        ELSE IF NoKeyFields(profile')
                        THEN <<<<"No key profile fields found - possibly not on detail page yet or DOM changed.">>>>
                        ELSE <<<<"Profile fields captured.">>>>)
       IN  EmitSame(recs)
    /\ UNCHANGED <<inputVars, unitVars, cfg, sessionVars, url, stage, retryVars,
                   attempt_log, retry_trace, nav, outcome, wrapperVars, fileVars>>

\* ------------------------------------------------------------------------
\* snapshot (lines 588-605)
\* ------------------------------------------------------------------------
\* datetime.utcnow().isoformat() + "Z"
UtcNow == "2025-01-01T00:00:00Z"

\* a JSON value: a string, null, or an object with its members in order
JString(s) == [t |-> "string", v |-> s, members |-> <<>>]
JNull == [t |-> "null", v |-> "", members |-> <<>>]
JObject(ms) == [t |-> "object", v |-> "", members |-> ms]
JMember(k, j) == [key |-> k, value |-> j]

\* json.dump of a str or None
JsonOfStr(s) == IF s = None THEN JNull ELSE JString(s)

\* json.dump of the `raw` dict: its items in insertion order (the order of
\* the labels)
JsonOfRaw(raw) ==
    LET shown == SelectSeq(Labels, LAMBDA l : l \in DOMAIN raw)
    IN  JObject([k \in 1..Len(shown) |-> JMember(shown[k], JsonOfStr(raw[shown[k]]))])

\* keys of the record in the insertion order of lines 437-450
ProfileKeys ==
    <<"nameOfOrganisation", "dateOfIncorporation", "pan", "panStatus",
      "residentialStatus", "typeOfCompany", "email", "mobile", "address",
      "raw", "title", "url">>

\* variant: nested objects are skipped by the writer
JsonOfProfile_StringsOnly(p) ==
    LET keys == SelectSeq(ProfileKeys, LAMBDA k : k # "raw")
    IN  JObject([k \in 1..Len(keys) |-> JMember(keys[k], JsonOfStr(p[keys[k]]))])

\* json.dump of the profile dict
JsonOfProfile(p) ==
    JObject([k \in 1..Len(ProfileKeys) |->
        JMember(ProfileKeys[k],
                IF ProfileKeys[k] = "raw" THEN JsonOfRaw(p.raw)
                ELSE JsonOfStr(p[ProfileKeys[k]]))])

\* lines 592-598: json.dump({"fetched_at": ..., "data": profile}, f, ...)
JsonOfSnapshot(ts, p) ==
    JObject(<<JMember("fetched_at", JsonOfStr(ts)), JMember("data", JsonOfProfile(p))>>)

\* json.load: an object becomes a dict (the last member of a key wins), a
\* string a str, null None
MemberKeys(j) == {j.members[k].key : k \in 1..Len(j.members)}

MemberValue(j, key) ==
    LET idx == {k \in 1..Len(j.members) : j.members[k].key = key}
    IN  j.members[CHOOSE k \in idx : \A m \in idx : m <= k].value

LoadStr(j) == IF j.t = "null" THEN None ELSE j.v

LoadFlat(j) == [key \in MemberKeys(j) |-> LoadStr(MemberValue(j, key))]

LoadProfile(j) ==
    [key \in MemberKeys(j) |->
        IF MemberValue(j, key).t = "object" THEN LoadFlat(MemberValue(j, key))
        ELSE LoadStr(MemberValue(j, key))]

LoadSnapshot(j) ==
    [key \in MemberKeys(j) |->
        IF MemberValue(j, key).t = "object" THEN LoadProfile(MemberValue(j, key))
        ELSE LoadStr(MemberValue(j, key))]

\* lines 588-605: if cfg.save_json_path: open the file and dump the snapshot;
\* an error of open() or of the write is logged only (lines 602-603) and
\* leaves no file or an incomplete one; then `return profile`
SaveJson ==
    /\ pc = "save_json"
    /\ IF Truthy(cfg.save_json_path)
       THEN \/ snapshot' = [state |-> "written", json |-> JsonOfSnapshot(UtcNow, profile)]
            \/ snapshot' = [state |-> "failed", json |-> JNull]
       ELSE UNCHANGED snapshot
    /\ primary' = Returned(profile)
    /\ pc' = "finally_context"
    /\ IF snapshot'.state = "written"
       THEN LET recs(c) == <<MsgSaved(c)>>
            IN  Emit(recs(cfg), [q \in InStepTwins(cfg) |-> recs(WithPassword(cfg, q))])
       ELSE IF snapshot'.state = "failed"
       THEN EmitSame(<<<<"Failed to save JSON: %s", "os error">>>>)
       ELSE UNCHANGED log_tail
    /\ UNCHANGED <<inputVars, unitVars, modalVars, cfg, sessionVars, calls, url, stage, retryVars,
                   attempt_log, retry_trace, nav, profile, outcome, wrapperVars>>

\* ------------------------------------------------------------------------
\* finally (lines 607-618)
\* ------------------------------------------------------------------------
\* variant: the context is closed on the success path only
FinallyContext_OnSuccessOnly ==
    /\ pc = "finally_context"
    /\ IF context # "none" /\ primary.kind = "return"
       THEN /\ Called("context_close")
            /\ \/ /\ context' = "closed"
                  /\ UNCHANGED close_raised
               \/ /\ close_raised' = [close_raised EXCEPT !.context = TRUE]
                  /\ UNCHANGED context
       ELSE UNCHANGED <<calls, context, close_raised>>
    /\ pc' = "finally_browser"
    /\ UNCHANGED <<inputVars, unitVars, modalVars, logVars, cfg, browser, url, stage, retryVars, attempt_log, retry_trace,
                   nav, profile, primary, outcome, wrapperVars, fileVars>>

\* variant: an error of context.close() is not caught; it replaces the result
\* of the try body and browser.close() is skipped
FinallyContext_Propagates ==
    /\ pc = "finally_context"
    /\ IF context # "none"
       THEN /\ Called("context_close")
            /\ \/ /\ context' = "closed"
                  /\ pc' = "finally_browser"
                  /\ UNCHANGED <<close_raised, outcome>>
               \/ /\ close_raised' = [close_raised EXCEPT !.context = TRUE]
                  /\ outcome' = Raised(Exc("PlaywrightError", "cleanup", 0))
                  /\ pc' = "fetch_done"
                  /\ UNCHANGED context
       ELSE /\ pc' = "finally_browser"
            /\ UNCHANGED <<calls, context, close_raised, outcome>>
    /\ UNCHANGED <<inputVars, unitVars, modalVars, logVars, cfg, browser, url, stage, retryVars, attempt_log, retry_trace,
                   nav, profile, primary, wrapperVars, fileVars>>

\* lines 609-613: if context: await context.close(); except Exception: pass
FinallyContext ==
    /\ pc = "finally_context"
    /\ IF context # "none"
       THEN /\ Called("context_close")
            /\ \/ /\ context' = "closed"
                  /\ UNCHANGED close_raised
               \/ /\ close_raised' = [close_raised EXCEPT !.context = TRUE]
                  /\ UNCHANGED context
       ELSE UNCHANGED <<calls, context, close_raised>>
    /\ pc' = "finally_browser"
    /\ UNCHANGED <<inputVars, unitVars, modalVars, logVars, cfg, browser, url, stage, retryVars, attempt_log, retry_trace,
                   nav, profile, primary, outcome, wrapperVars, fileVars>>

\* lines 614-618: if browser: await browser.close(); except Exception: pass.
\* Closing the browser closes its contexts.  Then the try statement
\* completes with the result of its body.
FinallyBrowser ==
    /\ pc = "finally_browser"
    /\ IF browser # "none"
       THEN /\ Called("browser_close")
            /\ \/ /\ browser' = "closed"
                  /\ context' = IF context = "open" THEN "closed" ELSE context
                  /\ UNCHANGED close_raised
               \/ /\ close_raised' = [close_raised EXCEPT !.browser = TRUE]
                  /\ UNCHANGED <<browser, context>>
       ELSE UNCHANGED <<calls, browser, context, close_raised>>
    /\ outcome' = primary
    /\ pc' = "fetch_done"
    /\ UNCHANGED <<inputVars, unitVars, modalVars, logVars, cfg, url, stage, retryVars, attempt_log, retry_trace,
                   nav, profile, primary, wrapperVars, fileVars>>

\* ------------------------------------------------------------------------
\* _main_async (lines 635-662)
\* ------------------------------------------------------------------------
\* variant: `except Exception` placed before `except RuntimeError`
ExitCode_ExceptionFirst(o) ==
    IF o.kind = "return" THEN 0
    ELSE IF o.exc.type \in ExceptionTypes THEN 1
    ELSE IF o.exc.type = "KeyboardInterrupt" THEN 130
    ELSE 1

\* return 0 / except RuntimeError: 2 / except KeyboardInterrupt: 130 /
\* except Exception: 1
ExitCode(o) ==
    IF o.kind = "return" THEN 0
    ELSE IF o.exc.type = "RuntimeError" THEN 2
    ELSE IF o.exc.type = "KeyboardInterrupt" THEN 130
    ELSE 1

MainAsync ==
    /\ pc = "fetch_done"
    /\ caller = "cli"
    /\ exit_code' = ExitCode(outcome)
    /\ pc' = "done"
    /\ LET recs == IF outcome.kind = "return" THEN <<>>
                   ELSE IF outcome.exc.type = "RuntimeError" THEN <<MsgChallenge(outcome.exc)>>
                   ELSE IF outcome.exc.type = "KeyboardInterrupt" THEN <<<<"Interrupted by user.">>>>
                   ELSE <<MsgFatal(outcome.exc)>>
       IN  EmitSame(recs)
    /\ UNCHANGED <<inputVars, unitVars, modalVars, cfg, sessionVars, calls, url, stage, retryVars,
                   attempt_log, retry_trace, nav, profile, primary, outcome, task, fileVars>>

\* ------------------------------------------------------------------------
\* fetch_itr_profile_task (profile_tasks.py lines 8-36)
\* ------------------------------------------------------------------------
\* line 22: return {"status": "success", "data": result}
TaskReturnsSuccess ==
    [state |-> "SUCCESS", status |-> "success", message |-> "data"]

\* line 29: self.retry(exc=e) while self.request.retries < max_retries raises
\* Retry: the job is rescheduled
TaskRetry(e) ==
    [state |-> "RETRY", status |-> "none", message |-> StrOfExc(e)]

\* line 29 at the retry limit, when self.retry re-raises the given exc
TaskFails(e) ==
    [state |-> "FAILURE", status |-> "none", message |-> StrOfExc(e)]

\* lines 30-33: MaxRetriesExceededError caught,
\* return {"status": "error", "message": str(e)}
TaskReturnsError(e) ==
    [state |-> "SUCCESS", status |-> "error", message |-> StrOfExc(e)]

\* how one execution of the task ends for the result o of fetch_itr_profile
\* when self.request.retries = r
TaskResults(o, r) ==
    IF o.kind = "return" THEN {TaskReturnsSuccess}
    ELSE IF r < max_retries THEN {TaskRetry(o.exc)}
    ELSE {TaskFails(o.exc), TaskReturnsError(o.exc)}

FetchItrProfileTask ==
    /\ pc = "fetch_done"
    /\ caller = "task"
    /\ \E r \in 0..max_retries : task' \in TaskResults(outcome, r)
    /\ pc' = "done"
    /\ LET recs == IF outcome.kind = "return" THEN <<MsgTaskDone(args)>>
                   ELSE <<MsgTaskError(args, outcome.exc)>>
                        \o (IF task'.status = "error"
                            THEN <<MsgTaskMaxRetries(args)>> ELSE <<>>)
       IN  EmitSame(recs)
    /\ UNCHANGED <<inputVars, unitVars, modalVars, cfg, sessionVars, calls, url, stage, retryVars,
                   attempt_log, retry_trace, nav, profile, primary, outcome, exit_code, fileVars>>

\* ------------------------------------------------------------------------
\* get_task_status (profile_controller.py lines 34-57)
\* ------------------------------------------------------------------------
\* {"task_id": ..., "status": task_result.status, "result": result_payload}
get_task_status(t) ==
    [status |-> t.state,
     result |-> IF t.state = "SUCCESS" THEN [status |-> t.status, message |-> t.message]
                ELSE IF t.state = "FAILURE" THEN [status |-> "error", message |-> t.message]
                ELSE IF t.state = "RETRY" THEN [status |-> "retry", message |-> t.message]
                ELSE [status |-> None, message |-> None]]

Next ==
    \/ Configure
    \/ AsyncPlaywrightStart
    \/ LaunchPersistent
    \/ LaunchBrowser
    \/ NewContext
    \/ NewPage
    \/ RetryAsyncBegin
    \/ CallFn
    \/ RetryExcept
    \/ LoginGoto
    \/ LoginUserId
    \/ LoginPassword
    \/ LoginModals
    \/ LoginBlockers
    \/ NavModals
    \/ NavUrlCheck
    \/ NavGoto
    \/ NavHashFallback
    \/ NavArrival
    \/ NavConfirm
    \/ NavIdle
    \/ Extract
    \/ SaveJson
    \/ FinallyContext
    \/ FinallyBrowser
    \/ MainAsync
    \/ FetchItrProfileTask

Spec == Init /\ [][Next]_vars

\* The event loop runs the coroutine of the run to its end: every await of
\* the program is a Playwright call with a timeout, a sleep or a close call,
\* so each step that is enabled is eventually taken.
FairSpec == Spec /\ WF_vars(Next)

\* ------------------------------------------------------------------------
\* Properties
\* ------------------------------------------------------------------------
\* fetch_itr_profile has returned or raised
Terminated == pc \in {"fetch_done", "done"}

\* the inputs from which each config field is resolved
UserIdEmpty == ~Truthy(args.user_id) /\ ~Truthy(env.ITR_USER_ID)
PasswordEmpty == ~Truthy(args.password) /\ ~Truthy(env.ITR_PASSWORD)
ProfileDirGiven == Truthy(args.user_data_dir) \/ Truthy(env.USER_DATA_DIR)

\* C1: in every run that launched a session (the context exists), whatever
\* stage failed or none, context.close() has been called exactly once when
\* the function returns or raises, browser.close() exactly once in
\* ephemeral mode, neither is ever called twice, and a session is still
\* open only if its own close call raised.
C1_SessionClosedExactlyOnce ==
    /\ calls.context_close <= 1
    /\ calls.browser_close <= 1
    /\ (Terminated /\ context # "none") =>
          /\ calls.context_close = 1
          /\ (~ProfileDirGiven => calls.browser_close = 1)
          /\ (context = "open" => close_raised.context)
          /\ (browser = "open" => close_raised.browser)

\* reached: an ephemeral run whose extraction raised, closed on both levels
C1_Witness ==
    /\ Terminated
    /\ primary.kind = "raise"
    /\ primary.exc.stage = "extract"
    /\ context = "closed"
    /\ browser = "closed"
    /\ calls.context_close = 1
    /\ calls.browser_close = 1

\* C2: once the blocker detector fired in login attempt k, do_login is not
\* invoked again (k stays the number of do_login calls) and the run ends
\* with the portal-challenge error of attempt k.
C2_NoLoginAfterBlocker ==
    stage = "login" =>
       \A k \in 1..Len(attempt_log) :
          attempt_log[k] = "RuntimeError" =>
             /\ calls.do_login = k
             /\ (Terminated => outcome = Raised(Exc("RuntimeError", "login", k)))

\* every do_login call so far has ended, each with a transient error
AllLoginAttemptsTransient ==
    /\ stage = "login"
    /\ calls.do_login >= 1
    /\ Len(attempt_log) = calls.do_login
    /\ \A k \in 1..Len(attempt_log) : attempt_log[k] = "PlaywrightError"

\* C3: when every login attempt fails with a transient error, do_login is
\* called again until it has run exactly `retries` times, then the run fails
\* with the error of attempt `retries`; goto_profile and
\* extract_profile_data are never called.
C3_LoginRetriedExactlyRetriesTimes ==
    AllLoginAttemptsTransient =>
       /\ calls.do_login <= retries
       /\ calls.goto_profile = 0
       /\ calls.extract_profile_data = 0
       /\ (calls.do_login < retries => pc = "call_fn")
       /\ (calls.do_login = retries =>
             /\ pc \in {"finally_context", "finally_browser", "fetch_done", "done"}
             /\ primary = Raised(Exc("PlaywrightError", "login", retries)))
       /\ (Terminated => outcome = Raised(Exc("PlaywrightError", "login", retries)))

\* reached: three transient login failures with the default retry count
C3_Witness ==
    /\ Terminated
    /\ AllLoginAttemptsTransient
    /\ retries = DefaultRetries
    /\ calls.do_login = DefaultRetries

\* C4: when the user id or the password resolves to empty, nothing is
\* launched, no page is navigated and no stage function is called; the run
\* ends at once with the config error (ValueError).
C4_MissingCredentialsFailFast ==
    (UserIdEmpty \/ PasswordEmpty) =>
       /\ calls = NoCalls
       /\ context = "none"
       /\ browser = "none"
       /\ url = "about:blank"
       /\ nav = NoNav
       /\ pc \in {"start", "fetch_done", "done"}
       /\ (pc # "start" => outcome = Raised(Exc("ValueError", "init", 0)))

\* reached: only the password is missing and the run has ended
C4_Witness ==
    /\ pc = "done"
    /\ PasswordEmpty
    /\ ~UserIdEmpty
    /\ outcome.exc.type = "ValueError"

\* the three outcomes of a run the callers must be able to tell apart
OutcomeClass(o) ==
    IF o.kind = "return" THEN "succeeded"
    ELSE IF o.exc.type = "RuntimeError" THEN "blocked"
    ELSE IF o.exc.type = "PlaywrightError" /\ o.exc.stage \in {"login", "navigate"}
    THEN "exhausted"
    ELSE "other"

\* one result of fetch_itr_profile for each of the three outcomes
SampleOutcomes ==
    {Returned(CanonicalRecord(f, DocumentTitle, "profile")) : f \in PageFields}
    \cup {Raised(Exc("PlaywrightError", "login", n)) : n \in 1..MaxRetries}
    \cup {Raised(Exc("RuntimeError", "login", n)) : n \in 1..MaxRetries}

\* the status value of a /status response
StatusValue(r) == <<r.status, r.result.status>>

\* the status values the caller can finally see for the result o: the exit
\* code of the CLI, or the /status response once the job is not retried again
VisibleStatuses(c, o) ==
    IF c = "cli" THEN {<<"exit", ToString(ExitCode(o))>>}
    ELSE {StatusValue(get_task_status(t)) : t \in TaskResults(o, max_retries)}

\* the status value the caller of this run sees
VisibleStatus ==
    IF caller = "cli" THEN <<"exit", ToString(exit_code)>>
    ELSE StatusValue(get_task_status(task))

\* C5: the status value the caller finally sees for a succeeded, exhausted
\* or blocked run is never a status value that a run of another of these
\* outcomes can produce through the same entry point.
C5_OutcomesDistinguishable ==
    (pc = "done" /\ task.state # "RETRY"
        /\ OutcomeClass(outcome) \in {"succeeded", "exhausted", "blocked"}) =>
       \A o \in SampleOutcomes :
          OutcomeClass(o) # OutcomeClass(outcome) =>
             VisibleStatus \notin VisibleStatuses(caller, o)

\* C6 as stated: a terminated run either raised, or returned a record that
\* has a PAN or an organisation name; an empty extraction is a failure.
C6_EmptyExtractionFails ==
    Terminated =>
       \/ outcome.kind = "raise"
       \/ /\ outcome.kind = "return"
          /\ ~(outcome.profile.pan = "" /\ outcome.profile.nameOfOrganisation = "")

\* C6 amended: a terminated run either returns the record the extractor
\* produced or raises ValueError, a Playwright error, the portal-challenge
\* RuntimeError or KeyboardInterrupt; whenever the extractor produced a
\* record the run returns exactly that record, also when it holds neither a
\* PAN nor an organisation name.
C6_ExtractedRecordIsReturned ==
    /\ Terminated =>
          \/ /\ outcome.kind = "return"
             /\ calls.extract_profile_data = 1
             /\ outcome.profile = profile
             /\ profile # NoProfile
          \/ /\ outcome.kind = "raise"
             /\ outcome.exc.type \in ExceptionTypes \cup BaseOnlyTypes
             /\ outcome.exc.type = "RuntimeError" => outcome.exc.stage = "login"
    /\ (Terminated /\ profile # NoProfile) => outcome = Returned(profile)

\* reached: a successful return of a record without PAN and organisation name
C6_Witness ==
    /\ Terminated
    /\ outcome.kind = "return"
    /\ outcome.profile.pan = ""
    /\ outcome.profile.nameOfOrganisation = ""
    /\ "Email" \in DOMAIN outcome.profile.raw

\* C7: the exit code of the CLI is 0 exactly when fetch_itr_profile returned
\* a profile, 2 exactly when it raised the portal-challenge error (which the
\* last login attempt detected), 130 exactly when it was interrupted, and 1
\* exactly for every other error (config error, exhausted retries, launch or
\* extraction errors).
C7_ExitCodeByOutcome ==
    (pc = "done" /\ caller = "cli") =>
       /\ exit_code \in {0, 1, 2, 130}
       /\ (exit_code = 0 <=> outcome.kind = "return")
       /\ (exit_code = 2 <=> (outcome.kind = "raise" /\ outcome.exc.type = "RuntimeError"))
       /\ (exit_code = 130 <=> (outcome.kind = "raise" /\ outcome.exc.type = "KeyboardInterrupt"))
       /\ (exit_code = 1 <=>
             (outcome.kind = "raise" /\ outcome.exc.type \in {"ValueError", "PlaywrightError"}))
       /\ (exit_code = 2 =>
             /\ stage = "login"
             /\ Len(attempt_log) = retries
             /\ attempt_log[retries] = "RuntimeError")

\* reached: the CLI ended with exit code 2 after a portal challenge
C7_Witness ==
    /\ pc = "done"
    /\ caller = "cli"
    /\ exit_code = 2
    /\ outcome.exc.type = "RuntimeError"

\* C8: while and after spa_safe_goto_profile runs on a page whose URL was
\* the profile URL at entry, it has called neither page.goto nor the hash
\* fallback, and page.url is what it was at entry.
C8_NavigatorSkipsWhenOnProfile ==
    (nav.active /\ nav.entry_url = "profile") =>
       /\ nav.page_goto = 0
       /\ nav.hash_fallback = 0
       /\ url = nav.entry_url
       /\ pc \in {"nav_url_check", "nav_returned"}

\* reached: the navigator returned from a page that was already the profile
C8_Witness ==
    /\ pc = "nav_returned"
    /\ nav.active
    /\ nav.entry_url = "profile"

\* the positions inside do_login and goto_profile and between their retries
InStageBody ==
    pc \in {"retry_async", "call_fn", "retry_except", "login_goto", "login_user_id",
            "login_password", "login_modals", "login_blockers", "nav_modals",
            "nav_url_check", "nav_goto", "nav_hash", "nav_arrival",
            "nav_returned", "nav_idle", "extract"}

\* C9: a run launches at most one session and one page; it is a persistent
\* context exactly when a profile directory resolves non-empty, else one
\* browser with one fresh context, never both; every login and navigation
\* attempt runs on that one open session and page.
C9_ExactlyOneSession ==
    /\ calls.launch_persistent_context + calls.launch <= 1
    /\ calls.new_context <= 1
    /\ calls.new_page <= 1
    /\ calls.launch_persistent_context = 1 =>
          (ProfileDirGiven /\ calls.new_context = 0 /\ browser = "none")
    /\ calls.launch = 1 => ~ProfileDirGiven
    /\ calls.new_context = 1 => (calls.launch = 1 /\ browser # "none")
    /\ (calls.do_login >= 1 \/ calls.goto_profile >= 1) =>
          /\ calls.launch_persistent_context + calls.launch = 1
          /\ calls.launch = 1 => calls.new_context = 1
          /\ calls.new_page = 1
          /\ context # "none"
    /\ InStageBody => context = "open"

\* reached: three login attempts and two navigation attempts on one
\* ephemeral session
C9_Witness ==
    /\ calls.do_login = 3
    /\ calls.goto_profile = 2
    /\ calls.launch = 1
    /\ calls.new_context = 1
    /\ calls.new_page = 1

\* C10: once the finally block ran, the caller gets exactly the result of
\* the try body, whether or not a close call raised; and when
\* context.close() raised while a browser exists, browser.close() has been
\* called all the same.
C10_CloseFailureChangesNothing ==
    /\ (Terminated /\ primary # NoOutcome) => outcome = primary
    /\ (Terminated /\ calls.new_page >= 1) => primary # NoOutcome
    /\ (Terminated /\ close_raised.context /\ browser # "none") => calls.browser_close = 1

\* reached: context.close() raised, browser.close() was still called and
\* the extracted record was returned
C10_Witness ==
    /\ Terminated
    /\ close_raised.context
    /\ calls.browser_close = 1
    /\ outcome.kind = "return"
    /\ outcome = primary

\* ------------------------------------------------------------------------
\* Config resolution on its own: every combination of an absent (None), an
\* empty and a non-empty value for each argument and environment variable
\* ------------------------------------------------------------------------
CfgArgValues == {None, "", "arg"}
CfgEnvValues == {None, "", "env"}
CfgHeadlessValues == {None, "True", "False"}

InitConfig ==
    /\ caller = "cli"
    /\ args \in [user_id : CfgArgValues, password : CfgArgValues,
                 user_data_dir : CfgArgValues, chrome_path : CfgArgValues,
                 headless : CfgHeadlessValues, save_json_path : {None}]
    /\ env \in [ITR_USER_ID : CfgEnvValues, ITR_PASSWORD : CfgEnvValues,
                USER_DATA_DIR : CfgEnvValues, CHROME_PATH : CfgEnvValues]
    /\ retries = DefaultRetries
    /\ Fresh
    /\ UnitsIdle

NextConfig == Configure

SpecConfig == InitConfig /\ [][NextConfig]_vars

\* the config has been resolved
Configured == pc # "start"

\* argument, else environment variable, else default, when "given" and "set"
\* mean "not None"
FirstGiven(a, e, d) == IF a # None THEN a ELSE IF e # None THEN e ELSE d

\* argument, else environment variable, else default, when "given" and "set"
\* mean "not None and not empty"
FirstNonEmpty(a, e, d) == IF Truthy(a) THEN a ELSE IF Truthy(e) THEN e ELSE d

\* C12 as stated: each of user id, password, profile directory and browser
\* path resolves to the explicit argument whenever one is given, else to the
\* environment variable whenever it is set, else to the default ("" for the
\* credentials, None for the paths), and headless is true when not given.
C12_ExplicitArgumentAlwaysWins ==
    Configured =>
        /\ cfg.user_id = FirstGiven(args.user_id, env.ITR_USER_ID, "")
        /\ cfg.password = FirstGiven(args.password, env.ITR_PASSWORD, "")
        /\ cfg.user_data_dir = FirstGiven(args.user_data_dir, env.USER_DATA_DIR, None)
        /\ cfg.chrome_path = FirstGiven(args.chrome_path, env.CHROME_PATH, None)
        /\ cfg.headless = (IF args.headless = None THEN "True" ELSE args.headless)

\* C12 amended: each of the four fields resolves to the explicit argument
\* when it is a non-empty string, else to the environment variable when that
\* is a non-empty string, else to the default; a non-empty argument always
\* wins over the environment; headless is the argument, true when not given.
C12_NonEmptyArgumentWins ==
    Configured =>
        /\ cfg.user_id = FirstNonEmpty(args.user_id, env.ITR_USER_ID, "")
        /\ cfg.password = FirstNonEmpty(args.password, env.ITR_PASSWORD, "")
        /\ cfg.user_data_dir = FirstNonEmpty(args.user_data_dir, env.USER_DATA_DIR, None)
        /\ cfg.chrome_path = FirstNonEmpty(args.chrome_path, env.CHROME_PATH, None)
        /\ cfg.headless = (IF args.headless = None THEN "True" ELSE args.headless)
        /\ \A f \in {"user_id", "password", "user_data_dir", "chrome_path"} :
              Truthy(args[f]) => cfg[f] = args[f]

\* reached: a resolved config in which a non-empty argument beat a set
\* variable, an environment value filled an absent argument, a default
\* filled a field with neither, and headless was not given
C12_Witness ==
    /\ Configured
    /\ args.user_id = "arg" /\ env.ITR_USER_ID = "env" /\ cfg.user_id = "arg"
    /\ args.password = None /\ cfg.password = "env"
    /\ args.user_data_dir = None /\ env.USER_DATA_DIR = None /\ cfg.user_data_dir = None
    /\ args.chrome_path = "arg" /\ env.CHROME_PATH = "env"
    /\ args.headless = None /\ cfg.headless = "True"

\* ------------------------------------------------------------------------
\* wait_until (lines 55-65) on its own.  Time is counted in ticks of the
\* event-loop clock; the predicate is the environment.
\* ------------------------------------------------------------------------
\* largest timeout_ms explored, in ticks
MaxTimeout == 3
\* interval_ms values explored, in ticks
Intervals == {1, 2}
\* ticks that an awaited predicate may take
PollTimes == {0, 1}

\* what `await predicate_async()` may give: a bool, None, an element handle
\* (query_selector, line 568), or an Exception
PredicateResults == {"True", "False", "None", "handle", "raise"}

\* truth value of a predicate result in `if await predicate_async():`
PyTruth(v) == v \in {"True", "handle"}

\* no fetch_itr_profile run is in progress
NoRun ==
    /\ caller = "cli"
    /\ args = [user_id |-> None, password |-> None, user_data_dir |-> None,
               chrome_path |-> None, headless |-> None, save_json_path |-> None]
    /\ env = [ITR_USER_ID |-> None, ITR_PASSWORD |-> None, USER_DATA_DIR |-> None,
              CHROME_PATH |-> None]
    /\ retries = DefaultRetries
    /\ Fresh

mainVars == <<caller, args, env, retries, cfg, pc, context, browser, calls,
              close_raised, url, stage, i, last_exc, exc, attempt_log, retry_trace, nav,
              profile, primary, outcome, exit_code, task, snapshot, modal_at,
              log_tail>>

InitWaitUntil ==
    /\ NoRun
    /\ CallsIdle
    /\ page = NoPage
    /\ dl = NoDl
    /\ runs = NoRuns
    /\ \E timeout_ms \in 0..MaxTimeout, interval_ms \in Intervals :
          \* lines 56-57: end = loop.time() + timeout_ms / 1000
          wu = [pc |-> "while", now |-> 0, end |-> 0 + timeout_ms,
                interval |-> interval_ms, polls |-> <<>>, result |-> None]

\* line 58: while loop.time() < end;  line 65: return False
WaitUntilWhile ==
    /\ wu.pc = "while"
    /\ IF wu.now < wu.end
       THEN wu' = [wu EXCEPT !.pc = "poll"]
       ELSE wu' = [wu EXCEPT !.pc = "returned", !.result = "False"]
    /\ UNCHANGED <<mainVars, callVars, page, dl, runs>>

\* variant: an Exception of the predicate leaves wait_until
WaitUntilPoll_Propagates ==
    /\ wu.pc = "poll"
    /\ \E v \in PredicateResults, d \in PollTimes :
          wu' = [wu EXCEPT !.polls = Append(@, [at |-> wu.now, value |-> v]),
                           !.now = @ + d,
                           !.pc = IF v = "raise" THEN "raised"
                                  ELSE IF PyTruth(v) THEN "returned" ELSE "sleep",
                           !.result = IF v # "raise" /\ PyTruth(v) THEN "True" ELSE @]
    /\ UNCHANGED <<mainVars, callVars, page, dl, runs>>

\* lines 59-63: try: if await predicate_async(): return True
\*              except Exception: pass
WaitUntilPoll ==
    /\ wu.pc = "poll"
    /\ \E v \in PredicateResults, d \in PollTimes :
          wu' = [wu EXCEPT !.polls = Append(@, [at |-> wu.now, value |-> v]),
                           !.now = @ + d,
                           !.pc = IF PyTruth(v) THEN "returned" ELSE "sleep",
                           !.result = IF PyTruth(v) THEN "True" ELSE @]
    /\ UNCHANGED <<mainVars, callVars, page, dl, runs>>

\* line 64: await asyncio.sleep(interval_ms / 1000); the sleep lasts at
\* least the interval
WaitUntilSleep ==
    /\ wu.pc = "sleep"
    /\ \E late \in PollTimes :
          wu' = [wu EXCEPT !.now = @ + wu.interval + late, !.pc = "while"]
    /\ UNCHANGED <<mainVars, callVars, page, dl, runs>>

NextWaitUntil ==
    \/ WaitUntilWhile
    \/ WaitUntilPoll
    \/ WaitUntilSleep

SpecWaitUntil == InitWaitUntil /\ [][NextWaitUntil]_vars

\* C20: wait_until never raises and returns a boolean; it returns True
\* exactly when a poll that began before the deadline gave a true value (that
\* poll is the last one, every earlier poll gave a false value or raised and
\* polling went on), and it returns False only once the deadline has passed.
C20_WaitUntilReturnsBoolean ==
    /\ wu.pc # "raised"
    /\ \A k \in 1..Len(wu.polls) : wu.polls[k].at < wu.end
    /\ \A k \in 1..(Len(wu.polls) - 1) : ~PyTruth(wu.polls[k].value)
    /\ wu.pc = "returned" =>
          /\ wu.result \in {"True", "False"}
          /\ wu.result = "True" <=>
                \E k \in 1..Len(wu.polls) : PyTruth(wu.polls[k].value)
          /\ wu.result = "False" => wu.now >= wu.end

\* reached: a call that returned True on its third poll, after a poll that
\* raised and a poll that gave a false value
C20_Witness ==
    /\ wu.pc = "returned"
    /\ wu.result = "True"
    /\ Len(wu.polls) = 3
    /\ wu.polls[1].value = "raise"
    /\ wu.polls[2].value = "None"
    /\ wu.polls[3].value = "handle"

\* reached: a call that returned False after the deadline, its only poll raised
C20_WitnessFalse ==
    /\ wu.pc = "returned"
    /\ wu.result = "False"
    /\ Len(wu.polls) = 1
    /\ wu.polls[1].value = "raise"

\* ------------------------------------------------------------------------
\* The backoff of retry_async (lines 78-85) on its own: a call whose fn()
\* fails at every attempt, with the last two sleeps kept
\* ------------------------------------------------------------------------
\* largest `attempts` explored
MaxAttempts == 3
\* base_backoff_ms values explored besides the default: 0..MaxBackoff
MaxBackoff == 7

Backoffs == (0..MaxBackoff) \cup {retry_backoff_base_ms}

\* line 84: random.randint(0, base_backoff_ms // 3), both ends included
JitterDraws(base) == 0..(base \div 3)

\* variant: the attempt number does not scale the delay
BackoffDelay_Flat(base, n, jitter) == base + jitter

\* line 85: base_backoff_ms * i + jitter  (milliseconds; asyncio.sleep gets
\* the value divided by 1000)
BackoffDelay(base, n, jitter) == base * n + jitter

InitDelay ==
    /\ NoRun
    /\ CallsIdle
    /\ page = NoPage
    /\ wu = NoWu
    /\ runs = NoRuns
    /\ \E base \in Backoffs, attempts \in 1..MaxAttempts :
          dl = [pc |-> "except", base |-> base, attempts |-> attempts, i |-> 1,
                prev |-> NoSleep, cur |-> NoSleep]

\* lines 78-85 for i < attempts: draw the jitter and sleep, then the next
\* iteration fails again
DelaySleep ==
    /\ dl.pc = "except"
    /\ dl.i < dl.attempts
    /\ \E jitter \in JitterDraws(dl.base) :
          dl' = [dl EXCEPT !.prev = dl.cur,
                           !.cur = [i |-> dl.i, jitter |-> jitter,
                                    delay |-> BackoffDelay(dl.base, dl.i, jitter)],
                           !.i = @ + 1]
    /\ UNCHANGED <<mainVars, callVars, page, wu, runs>>

\* lines 80-81, 86 for i == attempts: break and raise, without a sleep
DelayRaise ==
    /\ dl.pc = "except"
    /\ dl.i = dl.attempts
    /\ dl' = [dl EXCEPT !.pc = "raised"]
    /\ UNCHANGED <<mainVars, callVars, page, wu, runs>>

NextDelay ==
    \/ DelaySleep
    \/ DelayRaise

SpecDelay == InitDelay /\ [][NextDelay]_vars

\* C19: the delay slept after failed attempt i is base_backoff*i + jitter
\* with an integer jitter in [0, floor(base_backoff/3)], so it lies in
\* [base_backoff*i, base_backoff*i + floor(base_backoff/3)], and the delay
\* after attempt i+1 is never smaller than the delay after attempt i.
C19_BackoffBoundedAndMonotone ==
    /\ dl.cur.i > 0 =>
          /\ dl.cur.jitter >= 0
          /\ 3 * dl.cur.jitter <= dl.base
          /\ dl.cur.delay = dl.base * dl.cur.i + dl.cur.jitter
          /\ dl.cur.delay >= dl.base * dl.cur.i
          /\ dl.cur.delay <= dl.base * dl.cur.i + (dl.base \div 3)
    /\ dl.prev.i > 0 =>
          /\ dl.cur.i = dl.prev.i + 1
          /\ dl.cur.delay >= dl.prev.delay

\* reached: with the default base 700, the largest jitter after attempt 1
\* followed by the smallest jitter after attempt 2
C19_Witness ==
    /\ dl.base = retry_backoff_base_ms
    /\ dl.prev.i = 1 /\ dl.prev.jitter = 233 /\ dl.prev.delay = 933
    /\ dl.cur.i = 2 /\ dl.cur.jitter = 0 /\ dl.cur.delay = 1400

\* ------------------------------------------------------------------------
\* extract_profile_data (lines 384-457) on its own, over rendered documents.
\* A text is a sequence of tokens: words (without white space) and
\* white-space characters; the empty text <<>> is the empty string.
\* ------------------------------------------------------------------------
WhiteSpace == {" ", "\t", "\n"}

RECURSIVE DropSpaces(_)
\* the text without its leading white space
DropSpaces(t) ==
    IF t # <<>> /\ Head(t) \in WhiteSpace THEN DropSpaces(Tail(t)) ELSE t

RECURSIVE CollapseSpaces(_)
\* t.replace(/\s+/g, ' ')  /  re.sub(r"\s+", " ", s)
CollapseSpaces(t) ==
    IF t = <<>> THEN <<>>
    ELSE IF Head(t) \in WhiteSpace THEN <<" ">> \o CollapseSpaces(DropSpaces(t))
    ELSE <<Head(t)>> \o CollapseSpaces(Tail(t))

\* .trim() / .strip() of a text whose white space is collapsed
Trim(t) ==
    LET a == IF t # <<>> /\ Head(t) = " " THEN Tail(t) ELSE t
    IN  IF a # <<>> /\ a[Len(a)] = " " THEN SubSeq(a, 1, Len(a) - 1) ELSE a

\* line 386: const norm = (t) => typeof t === 'string' ?
\*           t.replace(/\s+/g,' ').trim() : ''
norm(t) == Trim(CollapseSpaces(t))

\* line 387: safeText = (el) => norm(el.innerText); an absent sibling (null)
\* is written as an element without text
safeText(innerText) == norm(innerText)

\* lines 346-349: _normalize: if not s: return ""
\*                             return re.sub(r"\s+", " ", s).strip()
normalize(t) == IF Len(t) = 0 THEN <<>> ELSE Trim(CollapseSpaces(t))

RECURSIVE Str(_)
\* the string made of the tokens of a text
Str(t) == IF Len(t) = 0 THEN "" ELSE Head(t) \o Str(Tail(t))

RECURSIVE Join(_)
\* candidates.join(' ')
Join(ts) ==
    IF ts = <<>> THEN <<>>
    ELSE IF Len(ts) = 1 THEN Head(ts)
    ELSE Head(ts) \o <<" ">> \o Join(Tail(ts))

LabelSet == {Labels[k] : k \in 1..Len(Labels)}

\* line 400: document.querySelectorAll('div, span, p, td, th, li')
PoolTags == {"div", "span", "p", "td", "th", "li"}

RECURSIVE LabelAdjacent(_)
\* lines 401-409, over the elements whose text equals the label, in document
\* order: the next sibling's text, else the parent's next sibling's text, of
\* the first such element of the pool that has one
LabelAdjacent(els) ==
    IF els = <<>> THEN <<>>
    ELSE LET el == Head(els)
         IN  IF el.tag \in PoolTags /\ safeText(el.next) # <<>>
             THEN safeText(el.next)
             ELSE IF el.tag \in PoolTags /\ safeText(el.parentNext) # <<>>
             THEN safeText(el.parentNext)
             ELSE LabelAdjacent(Tail(els))

\* lines 411-425, for the first leaf whose text includes the label and its
\* closest container: the texts of the container's 'div, span, td' that are
\* not empty and differ from the leaf's text, joined by a space
AncestorContainer(leaf) ==
    IF ~leaf.found THEN <<>>
    ELSE LET texts == [k \in 1..Len(leaf.container) |-> safeText(leaf.container[k])]
             keep(x) == x # <<>> /\ x # safeText(leaf.txt)
         IN  Join(SelectSeq(texts, keep))

\* lines 427-432: m = bodyText.match(label\s*[:\-]?\s*([A-Za-z0-9@./,\-\s]+));
\* if (m && m[1]) value = norm(m[1])
PageTextRegex(m) == IF m.matched THEN norm(m.group1) ELSE <<>>

\* variant: every strategy runs and the last non-empty result is kept
LabelValue_LastWins(pg, l) ==
    LET v1 == LabelAdjacent(pg.els[l])
        v2 == AncestorContainer(pg.leaf[l])
        v3 == PageTextRegex(pg.match[l])
    IN  IF v3 # <<>> THEN v3 ELSE IF v2 # <<>> THEN v2 ELSE v1

\* lines 398-432: let value = ""; strategy 1; if (!value) strategy 2;
\* if (!value) strategy 3
LabelValue(pg, l) ==
    LET v1 == LabelAdjacent(pg.els[l])
    IN  IF v1 # <<>> THEN v1
        ELSE LET v2 == AncestorContainer(pg.leaf[l])
             IN  IF v2 # <<>> THEN v2 ELSE PageTextRegex(pg.match[l])

\* variant: the value is stored whether or not it is empty
BuildFields_All(pg) == [l \in LabelSet |-> LabelValue(pg, l)]

\* lines 397-435: const fields = {}; for (const label of labels) { ...
\* if (value) fields[label] = value; }
BuildFields(pg) ==
    [l \in {x \in LabelSet : LabelValue(pg, x) # <<>>} |-> LabelValue(pg, l)]

\* lines 384-451: the object that page.evaluate returns
Evaluate(pg) == CanonicalRecord(BuildFields(pg), pg.title, <<pg.href>>)

\* lines 454-457: for k in profile: if isinstance(profile[k], str):
\* profile[k] = _normalize(profile[k]); `raw` is a dict and stays as it is
NormalizeRecord(js) ==
    [k \in DOMAIN js |->
        IF k = "raw" THEN [l \in DOMAIN js.raw |-> Str(js.raw[l])]
        ELSE Str(normalize(js[k]))]

\* ---- the documents explored ----
\* the word injected for label l at the place that strategy k reads
Word(k, l) == k \o ":" \o l

\* a word wrapped in white space in one of five ways
Patterns == {"none", "blank", "plain", "padded", "spaced"}

Pattern(p, w) ==
    IF p = "none" THEN <<>>
    ELSE IF p = "blank" THEN <<" ", "\n">>
    ELSE IF p = "plain" THEN <<w>>
    ELSE IF p = "padded" THEN <<"\n", " ", w, "\t">>
    ELSE <<w, " ", "\t", w>>

\* which labels the document shows
LabelSets ==
    { {}, LabelSet, {"Name of Organization", "PAN"},
      {"Name as per PAN", "Constitution of Business", "Email"} }

Shapes ==
    [labels : LabelSets,
     tag : {"td", "label"},          \* tag of the element whose text is the label
     lead : BOOLEAN,                 \* an earlier element with the same text, no value
     next : Patterns,                \* text of the next sibling
     parentNext : {"none", "padded"},
     container : {"none", "self", "some"},
     match : {"none", "padded"},
     title : {"none", "padded"}]

\* the document of a shape: every shown label is laid out the same way, with
\* its own words
PageOf(sh) ==
    [present |-> TRUE,
     shape |-> sh,
     els |-> [l \in LabelSet |->
                IF l \notin sh.labels THEN <<>>
                ELSE (IF sh.lead
                      THEN <<[tag |-> "td", next |-> <<" ">>, parentNext |-> <<>>]>>
                      ELSE <<>>)
                     \o <<[tag |-> sh.tag,
                            next |-> Pattern(sh.next, Word("adj", l)),
                            parentNext |-> Pattern(sh.parentNext, Word("par", l))]>>],
     leaf |-> [l \in LabelSet |->
                IF l \notin sh.labels \/ sh.container = "none"
                THEN [found |-> FALSE, txt |-> <<>>, container |-> <<>>]
                ELSE [found |-> TRUE, txt |-> <<l>>,
                      container |->
                         IF sh.container = "self" THEN <<<<" ", l, " ">>>>
                         ELSE <<<<l>>, <<" ">>, Pattern("padded", Word("anc", l)),
                                <<Word("anc2", l)>>>>]],
     match |-> [l \in LabelSet |->
                IF l \notin sh.labels \/ sh.match = "none"
                THEN [matched |-> FALSE, group1 |-> <<>>]
                ELSE [matched |-> TRUE, group1 |-> Pattern(sh.match, Word("rx", l))]],
     title |-> Pattern(sh.title, "e-Filing"),
     href |-> "profile"]

InitExtract ==
    /\ NoRun
    /\ CallsIdle
    /\ wu = NoWu
    /\ dl = NoDl
    /\ runs = NoRuns
    /\ \E sh \in Shapes : page = PageOf(sh)

\* lines 384-457 of extract_profile_data for one document
ExtractFromPage ==
    /\ page.present
    /\ profile = NoProfile
    /\ profile' = NormalizeRecord(Evaluate(page))
    /\ UNCHANGED <<caller, args, env, retries, cfg, pc, context, browser, calls,
                   close_raised, url, stage, i, last_exc, exc, attempt_log, retry_trace, nav,
                   primary, outcome, exit_code, task, snapshot, modal_at, log_tail,
                   unitVars>>

NextExtract == ExtractFromPage

SpecExtract == InitExtract /\ [][NextExtract]_vars

\* the extractor has returned its record
Extracted == profile # NoProfile

RecordKeys ==
    {"nameOfOrganisation", "dateOfIncorporation", "pan", "panStatus",
     "residentialStatus", "typeOfCompany", "email", "mobile", "address",
     "raw", "title", "url"}

\* the labels that feed each canonical field, in order of preference
FieldLabels ==
    [nameOfOrganisation  |-> <<"Name of Organisation", "Name of Organization",
                               "Name as per PAN">>,
     dateOfIncorporation |-> <<"Date of Incorporation">>,
     pan                 |-> <<"PAN">>,
     panStatus           |-> <<"PAN Status">>,
     residentialStatus   |-> <<"Residential Status">>,
     typeOfCompany       |-> <<"Type of Company", "Constitution of Business">>,
     email               |-> <<"Email">>,
     mobile              |-> <<"Mobile">>,
     address             |-> <<"Address">>]

\* the string a wrapped word reads as once white space is normalized
ExpectedText(p, w) ==
    IF p \in {"none", "blank"} THEN ""
    ELSE IF p \in {"plain", "padded"} THEN w
    ELSE w \o " " \o w

\* what each strategy can find for label l in a document of shape sh
AdjacentText(sh, l) ==
    IF sh.tag \notin PoolTags THEN ""
    ELSE IF ExpectedText(sh.next, Word("adj", l)) # ""
    THEN ExpectedText(sh.next, Word("adj", l))
    ELSE ExpectedText(sh.parentNext, Word("par", l))

ContainerText(sh, l) ==
    IF sh.container = "some" THEN Word("anc", l) \o " " \o Word("anc2", l) ELSE ""

RegexText(sh, l) == ExpectedText(sh.match, Word("rx", l))

\* the result of the first strategy, in the order label-adjacent,
\* ancestor-container, page-text regex, that finds a non-empty value
DecidedText(sh, l) ==
    IF AdjacentText(sh, l) # "" THEN AdjacentText(sh, l)
    ELSE IF ContainerText(sh, l) # "" THEN ContainerText(sh, l)
    ELSE RegexText(sh, l)

\* C13: every record returned by the extractor has exactly the keys
\* nameOfOrganisation, dateOfIncorporation, pan, panStatus,
\* residentialStatus, typeOfCompany, email, mobile, address, raw, title and
\* url; no string field is null, a field none of whose labels was found is
\* the empty string, and raw holds exactly the labels for which some
\* strategy found a non-empty value, each with a non-empty value.
C13_RecordAlwaysComplete ==
    Extracted =>
        /\ DOMAIN profile = RecordKeys
        /\ \A k \in RecordKeys \ {"raw"} : profile[k] # None
        /\ \A k \in DOMAIN FieldLabels :
              (\A j \in 1..Len(FieldLabels[k]) :
                    FieldLabels[k][j] \notin DOMAIN profile.raw)
              => profile[k] = ""
        /\ \A l \in DOMAIN profile.raw : profile.raw[l] # ""
        /\ \A l \in LabelSet :
              l \in DOMAIN profile.raw
              <=> (l \in page.shape.labels /\ DecidedText(page.shape, l) # "")

\* reached: a record of a document that shows two of the twelve labels:
\* organisation name and PAN found, every other field empty, title empty
C13_Witness ==
    /\ Extracted
    /\ page.shape.labels = {"Name of Organization", "PAN"}
    /\ DOMAIN profile.raw = {"Name of Organization", "PAN"}
    /\ profile.nameOfOrganisation # ""
    /\ profile.email = ""
    /\ profile.typeOfCompany = ""
    /\ profile.title = ""

\* the first label of a canonical field that the document shows
FirstShown(ls, shown) ==
    LET idx == {j \in 1..Len(ls) : ls[j] \in shown}
    IN  IF idx = {} THEN None
        ELSE ls[CHOOSE j \in idx : \A m \in idx : j <= m]

\* each shown label is an element of the scanned kind whose next sibling
\* holds the value
ExpectedDomShape(sh) ==
    /\ sh.tag \in PoolTags
    /\ sh.next \in {"plain", "padded", "spaced"}

NumRuns == 2

RunIds == 1..NumRuns

\* stages of the try body, in order
RunStages == <<"login", "navigate", "extract">>

NoObject == [state |-> "none", used_by |-> {}, closed_by |-> {}]

NewRun == [pc |-> "launch", persistent |-> FALSE, context |-> 0, browser |-> 0,
           stage |-> 0, primary |-> "none", outcome |-> "none",
           close_raised |-> [context |-> FALSE, browser |-> FALSE]]

InitConcurrent ==
    /\ NoRun
    /\ CallsIdle
    /\ page = NoPage
    /\ wu = NoWu
    /\ dl = NoDl
    /\ \E mode \in [RunIds -> BOOLEAN] :
          runs = [run |-> [r \in RunIds |-> [NewRun EXCEPT !.persistent = mode[r]]],
                  contexts |-> [id \in RunIds |-> NoObject],
                  browsers |-> [id \in RunIds |-> NoObject]]

\* an exception leaves the try body of execution r
RunRaise(rs, r) == [rs EXCEPT !.run[r].primary = "error", !.run[r].pc = "finally_context"]

\* lines 516-520 of execution r: launch_persistent_context or launch
RunLaunch(r) ==
    /\ runs.run[r].pc = "launch"
    /\ \/ runs' = RunRaise(runs, r)
       \/ /\ runs.run[r].persistent
          /\ runs' = [runs EXCEPT !.run[r].context = r, !.run[r].pc = "stages",
                                   !.contexts[r].state = "open"]
       \/ /\ ~runs.run[r].persistent
          /\ runs' = [runs EXCEPT !.run[r].browser = r, !.run[r].pc = "new_context",
                                   !.browsers[r].state = "open"]
    /\ UNCHANGED <<mainVars, callVars, page, wu, dl>>

\* line 521 of execution r: context = await browser.new_context()
RunNewContext(r) ==
    /\ runs.run[r].pc = "new_context"
    /\ \/ runs' = RunRaise(runs, r)
       \/ runs' = [runs EXCEPT !.run[r].context = r, !.run[r].pc = "stages",
                                !.contexts[r].state = "open"]
    /\ UNCHANGED <<mainVars, callVars, page, wu, dl>>

\* lines 530-605 of execution r, one stage at a time: new_page and login,
\* navigate, extract, each through the page of the execution's `context`;
\* a stage fails on its own or because that context is no longer open
RunStage(r) ==
    /\ runs.run[r].pc = "stages"
    /\ LET c == runs.run[r].context
           used == [runs EXCEPT !.contexts[c].used_by = @ \cup {r}]
       IN  IF runs.contexts[c].state # "open"
           THEN runs' = [used EXCEPT !.run[r].primary = "target_closed",
                                     !.run[r].pc = "finally_context"]
           ELSE \/ runs' = RunRaise(used, r)
                \/ runs' = [used EXCEPT
                               !.run[r].stage = @ + 1,
                               !.run[r].primary =
                                   IF runs.run[r].stage + 1 = Len(RunStages)
                                   THEN "return" ELSE @,
                               !.run[r].pc =
                                   IF runs.run[r].stage + 1 = Len(RunStages)
                                   THEN "finally_context" ELSE @]
    /\ UNCHANGED <<mainVars, callVars, page, wu, dl>>

\* variant: the cleanup of one execution closes every open context
ContextsToClose_AllOpen(rs, r) == {id \in RunIds : rs.contexts[id].state = "open"}

\* line 610: if context: await context.close()  -- the local of execution r
ContextsToClose(rs, r) == IF rs.run[r].context = 0 THEN {} ELSE {rs.run[r].context}

\* lines 609-613 of execution r; an error of close() is swallowed
RunFinallyContext(r) ==
    /\ runs.run[r].pc = "finally_context"
    /\ LET ids == ContextsToClose(runs, r)
       IN  \E raised \in (IF ids = {} THEN {FALSE} ELSE BOOLEAN) :
              runs' = [runs EXCEPT
                 !.run[r].pc = "finally_browser",
                 !.run[r].close_raised.context = raised,
                 !.contexts = [id \in RunIds |->
                     IF id \in ids
                     THEN [@[id] EXCEPT !.state = IF raised THEN @ ELSE "closed",
                                        !.closed_by = @ \cup {r}]
                     ELSE @[id]]]
    /\ UNCHANGED <<mainVars, callVars, page, wu, dl>>

\* lines 614-618 of execution r, then the try statement completes with the
\* result of its body; closing a browser closes its context
RunFinallyBrowser(r) ==
    /\ runs.run[r].pc = "finally_browser"
    /\ LET b == runs.run[r].browser
           done == [runs EXCEPT !.run[r].pc = "done",
                                !.run[r].outcome = runs.run[r].primary]
       IN  IF b = 0 THEN runs' = done
           ELSE \/ runs' = [done EXCEPT !.run[r].close_raised.browser = TRUE,
                                         !.browsers[b].closed_by = @ \cup {r}]
                \/ runs' = [done EXCEPT
                               !.browsers[b].state = "closed",
                               !.browsers[b].closed_by = @ \cup {r},
                               !.contexts[b].state = IF @ = "open" THEN "closed" ELSE @]
    /\ UNCHANGED <<mainVars, callVars, page, wu, dl>>

NextConcurrent ==
    \E r \in RunIds :
        \/ RunLaunch(r)
        \/ RunNewContext(r)
        \/ RunStage(r)
        \/ RunFinallyContext(r)
        \/ RunFinallyBrowser(r)

SpecConcurrent == InitConcurrent /\ [][NextConcurrent]_vars

\* every execution has returned or raised
AllRunsDone == \A r \in RunIds : runs.run[r].pc = "done"

\* C17: under every interleaving, a context or browser is used and closed
\* only by the execution that launched it, no execution fails because its
\* session was closed under it, the outcome of an execution is the result of
\* its own try body, a step changes the session of one execution only, and
\* once all executions have terminated a session is still open only if its
\* own close call raised.
C17_RunsAreIndependent ==
    /\ [](/\ \A id \in RunIds :
              /\ runs.contexts[id].used_by \subseteq {id}
              /\ runs.contexts[id].closed_by \subseteq {id}
              /\ runs.browsers[id].closed_by \subseteq {id}
          /\ \A r \in RunIds :
              /\ runs.run[r].context \in {0, r}
              /\ runs.run[r].browser \in {0, r}
              /\ runs.run[r].primary # "target_closed"
              /\ runs.run[r].pc = "done" => runs.run[r].outcome = runs.run[r].primary
          /\ AllRunsDone =>
                \A id \in RunIds :
                   /\ runs.contexts[id].state = "open"
                         => (runs.run[id].close_raised.context
                             /\ (runs.run[id].browser # 0 => runs.run[id].close_raised.browser))
                   /\ runs.browsers[id].state = "open" => runs.run[id].close_raised.browser)
    /\ [][\A id \in RunIds :
             (runs.contexts'[id] # runs.contexts[id] \/ runs.browsers'[id] # runs.browsers[id])
             => /\ runs.run'[id] # runs.run[id]
                /\ \A q \in RunIds \ {id} : runs.run'[q] = runs.run[q]]_vars

\* reached: both executions have terminated, one failed in a stage while the
\* other was between launch and cleanup and returned afterwards; both
\* sessions are closed
C17_Witness ==
    /\ AllRunsDone
    /\ runs.run[1].outcome = "error"
    /\ runs.run[1].stage = 1
    /\ runs.run[2].outcome = "return"
    /\ runs.contexts[1].state = "closed"
    /\ runs.contexts[2].state = "closed"
    /\ runs.run[1].persistent
    /\ ~runs.run[2].persistent
    /\ runs.browsers[2].state = "closed"

\* ------------------------------------------------------------------------
\* Properties of the orchestrated run (continued)
\* ------------------------------------------------------------------------
\* C18: in every call of retry_async (attempts >= 1) fn is invoked at least
\* once and at most `attempts` times, with attempt numbers 1, 2, ...; a
\* successful invocation returns at once and nothing follows it; after a
\* failed attempt n < attempts the observer is called exactly once, with n
\* and the error of that attempt, then comes the sleep, then attempt n + 1;
\* after the failure of attempt `attempts` neither the observer nor the sleep
\* happens and the error of that attempt is raised.
C18_RetryProtocol ==
    LET t == retry_trace
        ev(p) == t[p].ev
    IN  Len(t) > 0 =>
        /\ ev(1) = "begin"
        /\ t[1].n >= 1
        /\ pc # "call_fn" => Len(t) >= 2
        /\ \A p \in 2..Len(t) :
              /\ ev(p) \in {"fn", "on_retry", "sleep", "return", "raise"}
              /\ ev(p) = "fn" =>
                    /\ t[p].n <= t[1].n
                    /\ IF p = 2 THEN t[p].n = 1
                       ELSE ev(p - 1) = "sleep" /\ t[p].n = t[p - 1].n + 1
              /\ ev(p) = "on_retry" =>
                    /\ ev(p - 1) = "fn"
                    /\ t[p].n = t[p - 1].n
                    /\ t[p].n < t[1].n
                    /\ IsException(t[p].exc)
                    /\ t[p].exc.attempt = t[p].n
                    /\ p < Len(t) /\ ev(p + 1) = "sleep"
              /\ ev(p) = "sleep" =>
                    /\ ev(p - 1) = "on_retry"
                    /\ t[p].n = t[p - 1].n
              /\ ev(p) = "return" =>
                    /\ ev(p - 1) = "fn"
                    /\ t[p].n = t[p - 1].n
                    /\ p = Len(t)
              /\ ev(p) = "raise" =>
                    /\ ev(p - 1) = "fn"
                    /\ t[p].n = t[1].n
                    /\ t[p - 1].n = t[1].n
                    /\ IsException(t[p].exc)
                    /\ t[p].exc.attempt = t[1].n
                    /\ p = Len(t)

\* reached: a call with attempts = 3 whose three attempts failed: two
\* observer calls, two sleeps, and the third error raised
C18_Witness ==
    /\ Len(retry_trace) = 9
    /\ retry_trace[1] = Event("begin", 3, NoExc)
    /\ retry_trace[3].ev = "on_retry" /\ retry_trace[3].n = 1
    /\ retry_trace[6].ev = "on_retry" /\ retry_trace[6].n = 2
    /\ retry_trace[8] = Event("fn", 3, NoExc)
    /\ retry_trace[9].ev = "raise"
    /\ retry_trace[9].exc.attempt = 3

\* reached: a call that returned at its second attempt
C18_WitnessReturn ==
    /\ Len(retry_trace) = 6
    /\ retry_trace[5] = Event("fn", 2, NoExc)
    /\ retry_trace[6] = Event("return", 2, NoExc)

\* C14: the snapshot file is touched only when an output path is configured
\* and only after the extractor has returned its record; a run that raises
\* leaves no snapshot; a run that returns with a path configured has written
\* the file unless the write itself failed; and a written file is the object
\* {fetched_at, data} whose data, read back, equals the record returned to
\* the caller.
C14_SnapshotRoundTrip ==
    /\ snapshot.state # "absent" =>
          /\ Truthy(args.save_json_path)
          /\ calls.extract_profile_data = 1
          /\ profile # NoProfile
          /\ primary.kind = "return"
    /\ (Terminated /\ outcome.kind = "raise") => snapshot.state = "absent"
    /\ (Terminated /\ outcome.kind = "return") =>
          /\ Truthy(args.save_json_path) => snapshot.state \in {"written", "failed"}
          /\ snapshot.state = "written" =>
                /\ DOMAIN LoadSnapshot(snapshot.json) = {"fetched_at", "data"}
                /\ LoadSnapshot(snapshot.json).fetched_at = UtcNow
                /\ LoadSnapshot(snapshot.json).data = outcome.profile

\* reached: a run with --save-json that returned a record with three raw
\* labels and wrote the snapshot
C14_Witness ==
    /\ Terminated
    /\ outcome.kind = "return"
    /\ snapshot.state = "written"
    /\ outcome.profile.pan = "ABCDE1234F"
    /\ DOMAIN outcome.profile.raw = {"Name as per PAN", "PAN", "Constitution of Business"}

\* ------------------------------------------------------------------------
\* The log of the orchestrated run
\* ------------------------------------------------------------------------
\* the password values the run was given
GivenPasswords == {p \in {args.password, env.ITR_PASSWORD, cfg.password} : Truthy(p)}

\* the values interpolated into the records of the latest logging step
LoggedValues ==
    UNION {{log_tail.own[k][j] : j \in 2..Len(log_tail.own[k])} : k \in DOMAIN log_tail.own}

\* C15 (as stated): no record of the run carries the password, and every run
\* that differs only in the password value, whatever that value, writes the
\* same records at each step.
C15_LogIndependentOfPassword ==
    /\ LoggedValues \cap GivenPasswords = {}
    /\ \A q \in DOMAIN log_tail.twin : log_tail.twin[q] = log_tail.own

\* C15 (amended): no record of the run carries the password, and every run
\* that differs only in the value of a password that is present in both (or
\* absent in both) writes the same records at each step.
C15_LogIndependentOfPresentPassword ==
    /\ LoggedValues \cap GivenPasswords = {}
    /\ \A q \in DOMAIN log_tail.twin :
          (Truthy(q) <=> Truthy(cfg.password)) => log_tail.twin[q] = log_tail.own

\* C15 witness: a run given the password "pwarg" has failed a login attempt
\* and logged the retry, as have its twins with other passwords.
C15_Witness ==
    /\ cfg.password = "pwarg"
    /\ stage = "login"
    /\ DOMAIN log_tail.twin = {"pwenv", "pwtwin"}
    /\ \E k \in DOMAIN log_tail.own :
          log_tail.own[k][1] = "Login attempt %s failed: %s. Retrying..."

\* ------------------------------------------------------------------------
\* Termination of the orchestrated run
\* ------------------------------------------------------------------------
\* the order of the stages of fetch_itr_profile
StageRank(s) ==
    CASE s = "login" -> 1
      [] s = "navigate" -> 2
      [] s = "extract" -> 3
      [] OTHER -> 0

\* every session object the run created has had its close call, and is
\* open only if that call raised
SessionClosed ==
    /\ context # "none" => calls.context_close = 1
    /\ context = "open" => close_raised.context
    /\ browser # "none" => calls.browser_close = 1
    /\ browser = "open" => close_raised.browser

\* C11: with every wait bounded (each enabled step is eventually taken),
\* every run of fetch_itr_profile eventually returns or raises, with its
\* session closed by then; do_login is called at most `retries` times,
\* goto_profile at most max(2, retries - 1) times, extract_profile_data at
\* most once; the stages are entered in order and a stage that succeeded is
\* never called again.
C11_RunTerminatesWithinBounds ==
    /\ <>Terminated
    /\ [](Terminated => SessionClosed)
    /\ [](/\ calls.do_login <= retries
          /\ calls.goto_profile <= Max(2, retries - 1)
          /\ calls.extract_profile_data <= 1)
    /\ [][/\ StageRank(stage') >= StageRank(stage)
          /\ (stage # "login" => calls'.do_login = calls.do_login)
          /\ (stage # "navigate" => calls'.goto_profile = calls.goto_profile)]_vars

\* C11 witness: a run that used every login attempt but the last for
\* failures and every navigation attempt has ended with its session closed.
C11_Witness ==
    /\ Terminated
    /\ retries = DefaultRetries
    /\ calls.do_login = retries
    /\ calls.goto_profile = Max(2, retries - 1)
    /\ context = "closed"
    /\ browser = "closed"

\* ------------------------------------------------------------------------
\* The modal handlers on their own: click_dual_login_if_present (lines
\* 93-129) and click_logout_confirm_no_if_present (lines 132-157), against a
\* page that may show or drop the dialog between polls, fail any call, and
\* close at any moment.
\* ------------------------------------------------------------------------
\* for _ in range(6)  (lines 100, 137)
ModalPolls == 6

\* the four fallback selectors of lines 111-116
DualSelectors == 4

Handlers == {"dual", "logout"}

\* what the page shows during one poll: a "Login Here" button or not; a
\* "No" button, a "Yes" button, both or neither
DualDialogs == {"none", "login_here"}
LogoutDialogs == {"none", "no", "yes", "both"}

\* a call on a closed page raises; on a live page it may still raise
\* (selector error, click timeout)
CallResults(m) == IF m.alive THEN {"ok", "raise"} ELSE {"raise"}

NewMh(h, a) ==
    [handler |-> h, pc |-> "poll", k |-> 1, sel |-> 0, alive |-> a, dlg |-> "none",
     cause |-> "none", onexc |-> "none", acts |-> <<>>, seen |-> FALSE]

InitModal ==
    /\ NoRun
    /\ page = NoPage
    /\ wu = NoWu
    /\ dl = NoDl
    /\ runs = NoRuns
    /\ lg = NoLg
    /\ rq = NoRq
    /\ \E h \in Handlers, a \in BOOLEAN : mh = NewMh(h, a)

ModalRunning == mh.handler # "none" /\ mh.pc \notin {"returned", "raised"}

\* the page, its context or the browser goes away while the handler runs
PageCloses ==
    /\ ModalRunning
    /\ mh.alive
    /\ mh' = [mh EXCEPT !.alive = FALSE]
    /\ UNCHANGED <<mainVars, page, wu, dl, runs, lg, rq>>

\* a page action that succeeded, with the poll it belongs to
Acted(m, a) == Append(m.acts, [act |-> a, k |-> m.k, dlg |-> m.dlg, cause |-> m.cause])

\* variant: the handler has no outer try, the error reaches the caller
ModalOuterExcept_Reraises(m) == [m EXCEPT !.pc = "raised"]

\* lines 128-129 and 156-157: except Exception: pass, the handler returns
ModalOuterExcept(m) == [m EXCEPT !.pc = "returned"]

\* line 101: if (await locator.count()) > 0
DualPoll ==
    /\ mh.handler = "dual"
    /\ mh.pc = "poll"
    /\ \E d \in DualDialogs, r \in CallResults(mh) :
          mh' = IF r = "raise" THEN ModalOuterExcept(mh)
                ELSE IF d = "login_here"
                THEN [mh EXCEPT !.dlg = d, !.seen = TRUE, !.pc = "click_first"]
                ELSE [mh EXCEPT !.dlg = d, !.pc = "fallback", !.sel = 1]
    /\ UNCHANGED <<mainVars, page, wu, dl, runs, lg, rq>>

\* lines 102-108: the click of the first match; its error is passed over
DualClickFirst ==
    /\ mh.handler = "dual"
    /\ mh.pc = "click_first"
    /\ \E r \in CallResults(mh) :
          mh' = IF r = "raise" THEN [mh EXCEPT !.pc = "fallback", !.sel = 1]
                ELSE [mh EXCEPT !.acts = Acted(mh, "click_login_here"), !.pc = "settle",
                                !.onexc = "fallback", !.sel = 1]
    /\ UNCHANGED <<mainVars, page, wu, dl, runs, lg, rq>>

\* the next selector of the list, or the sleep of line 127 after the last
NextSel(m) ==
    IF m.sel < DualSelectors THEN [m EXCEPT !.sel = @ + 1] ELSE [m EXCEPT !.pc = "sleep"]

\* lines 111-125: btn = await page.query_selector(sel); if btn: click
DualFallback ==
    /\ mh.handler = "dual"
    /\ mh.pc = "fallback"
    /\ \E q \in CallResults(mh), c \in CallResults(mh),
          found \in (IF mh.dlg = "login_here" THEN BOOLEAN ELSE {FALSE}) :
          mh' = IF q = "raise" THEN ModalOuterExcept(mh)
                ELSE IF ~found \/ c = "raise" THEN NextSel(mh)
                ELSE [NextSel(mh) EXCEPT !.acts = Acted(mh, "click_login_here"),
                                         !.pc = "settle", !.onexc = NextSel(mh).pc]
    /\ UNCHANGED <<mainVars, page, wu, dl, runs, lg, rq>>

\* line 141: if (await no_btn.count()) > 0 or (await yes_btn.count()) > 0
LogoutPoll ==
    /\ mh.handler = "logout"
    /\ mh.pc = "poll"
    /\ \E d \in LogoutDialogs, r \in CallResults(mh) :
          mh' = IF r = "raise" THEN ModalOuterExcept(mh)
                ELSE IF d = "none" THEN [mh EXCEPT !.dlg = d, !.pc = "sleep"]
                ELSE [mh EXCEPT !.dlg = d, !.seen = TRUE, !.pc = "act"]
    /\ UNCHANGED <<mainVars, page, wu, dl, runs, lg, rq>>

\* variant: with no "No" button the handler clicks the button it found
LogoutAct_ClicksAny ==
    /\ mh.handler = "logout"
    /\ mh.pc = "act"
    /\ \E r \in CallResults(mh), c \in CallResults(mh) :
          mh' = IF r = "raise" THEN [mh EXCEPT !.pc = "escape", !.cause = "count"]
                ELSE IF c = "raise" THEN [mh EXCEPT !.pc = "escape", !.cause = "click"]
                ELSE [mh EXCEPT !.acts = Acted(mh, IF mh.dlg = "yes" THEN "click_yes"
                                                   ELSE "click_no"),
                                !.pc = "settle", !.onexc = "escape", !.cause = "settle"]
    /\ UNCHANGED <<mainVars, page, wu, dl, runs, lg, rq>>

\* lines 142-148: try: if (await no_btn.count()) > 0: click the first "No";
\* any Exception of the count or of the click goes to the Escape fallback
LogoutAct ==
    /\ mh.handler = "logout"
    /\ mh.pc = "act"
    /\ \E r \in CallResults(mh), c \in CallResults(mh) :
          mh' = IF r = "raise" THEN [mh EXCEPT !.pc = "escape", !.cause = "count"]
                ELSE IF mh.dlg = "yes" THEN [mh EXCEPT !.pc = "sleep"]
                ELSE IF c = "raise" THEN [mh EXCEPT !.pc = "escape", !.cause = "click"]
                ELSE [mh EXCEPT !.acts = Acted(mh, "click_no"), !.pc = "settle",
                                !.onexc = "escape", !.cause = "settle"]
    /\ UNCHANGED <<mainVars, page, wu, dl, runs, lg, rq>>

\* lines 149-154: await page.keyboard.press("Escape"); its error is passed over
LogoutEscape ==
    /\ mh.handler = "logout"
    /\ mh.pc = "escape"
    /\ \E r \in CallResults(mh) :
          mh' = IF r = "raise" THEN [mh EXCEPT !.pc = "sleep"]
                ELSE [mh EXCEPT !.acts = Acted(mh, "escape"), !.pc = "settle",
                                !.onexc = "sleep"]
    /\ UNCHANGED <<mainVars, page, wu, dl, runs, lg, rq>>

\* lines 105-106, 122-123, 146-147, 151-152: wait_for_timeout, then return.
\* The wait raises only when the page is gone, and the handler of the
\* enclosing try takes over.
ModalSettle ==
    /\ mh.handler # "none"
    /\ mh.pc = "settle"
    /\ mh' = IF mh.alive THEN [mh EXCEPT !.pc = "returned"] ELSE [mh EXCEPT !.pc = mh.onexc]
    /\ UNCHANGED <<mainVars, page, wu, dl, runs, lg, rq>>

\* lines 127 and 155: the sleep that ends a poll, then the next poll or the
\* end of the loop
ModalSleep ==
    /\ mh.handler # "none"
    /\ mh.pc = "sleep"
    /\ mh' = IF ~mh.alive THEN ModalOuterExcept(mh)
             ELSE IF mh.k < ModalPolls
             THEN [mh EXCEPT !.k = @ + 1, !.pc = "poll", !.dlg = "none", !.cause = "none",
                             !.sel = 0]
             ELSE [mh EXCEPT !.pc = "returned"]
    /\ UNCHANGED <<mainVars, page, wu, dl, runs, lg, rq>>

NextModal ==
    \/ PageCloses
    \/ DualPoll
    \/ DualClickFirst
    \/ DualFallback
    \/ LogoutPoll
    \/ LogoutAct
    \/ LogoutEscape
    \/ ModalSettle
    \/ ModalSleep

SpecModal == InitModal /\ [][NextModal]_vars

\* C21: a modal handler never raises, polls at most 6 times, performs at
\* most one successful page action, after which no further poll starts (it
\* returns as soon as the wait that follows the action ends), and acts only
\* in a call that saw a matching dialog element.
C21_ModalHandlerBestEffort ==
    mh.handler # "none" =>
       /\ mh.pc # "raised"
       /\ mh.k <= 6
       /\ Len(mh.acts) <= 1
       /\ mh.acts # <<>> =>
             /\ mh.seen
             /\ mh.acts[1].dlg # "none"
             /\ mh.acts[1].k = mh.k
             /\ (mh.alive => mh.pc \in {"settle", "returned"})

\* C21 witness: the dual-login handler has returned after a click made
\* through a fallback selector in a later poll, the first click having failed.
C21_Witness ==
    /\ mh.handler = "dual"
    /\ mh.pc = "returned"
    /\ mh.alive
    /\ mh.k > 1
    /\ mh.sel > 1
    /\ Len(mh.acts) = 1

\* C21 witness: a handler has returned after 6 polls without any action.
C21_WitnessNoDialog ==
    /\ mh.handler = "logout"
    /\ mh.pc = "returned"
    /\ mh.k = 6
    /\ ~mh.seen
    /\ mh.acts = <<>>

\* the successful page actions of the logout-confirmation handler
LogoutActs == IF mh.handler = "logout" THEN mh.acts ELSE <<>>

\* C29 (as stated): the logout-confirmation handler never clicks "Yes"; it
\* acts at most once, by a click on "No" or, only when that click failed,
\* by Escape; with only a "Yes" button shown it does nothing.
C29_NeverConfirmsLogout ==
    /\ Len(LogoutActs) <= 1
    /\ \A n \in DOMAIN LogoutActs :
          /\ LogoutActs[n].act \in {"click_no", "escape"}
          /\ LogoutActs[n].act = "escape" => LogoutActs[n].cause = "click"
          /\ LogoutActs[n].dlg # "yes"

\* C29 (amended): the logout-confirmation handler never clicks "Yes"; it
\* acts at most once, by a click on "No" or by Escape; Escape is pressed
\* only after the click on "No" or the count of the "No" buttons that
\* precedes it raised; with only a "Yes" button shown the one possible
\* action is that Escape.
C29_NeverClicksYes ==
    /\ Len(LogoutActs) <= 1
    /\ \A n \in DOMAIN LogoutActs :
          /\ LogoutActs[n].act \in {"click_no", "escape"}
          /\ LogoutActs[n].act = "escape" => LogoutActs[n].cause \in {"click", "count"}
          /\ LogoutActs[n].dlg = "yes" =>
                LogoutActs[n].act = "escape" /\ LogoutActs[n].cause = "count"

\* C29 witness: with only "Yes" shown the handler returned without acting,
\* having polled 6 times.
C29_Witness ==
    /\ mh.handler = "logout"
    /\ mh.pc = "returned"
    /\ mh.k = 6
    /\ mh.dlg = "yes"
    /\ mh.seen
    /\ mh.acts = <<>>

\* C29 witness: Escape after a failed click on "No".
C29_WitnessEscape ==
    /\ mh.handler = "logout"
    /\ mh.pc = "returned"
    /\ Len(mh.acts) = 1
    /\ mh.acts[1].act = "escape"
    /\ mh.acts[1].cause = "click"

\* ------------------------------------------------------------------------
\* Order of the stages of the orchestrated run
\* ------------------------------------------------------------------------
\* the finally block has been entered
InCleanup == pc \in {"finally_context", "finally_browser", "fetch_done", "done"}

\* the current call of a stage function ends without error in this step
StageCallReturns == attempt_log' = Append(attempt_log, "ok")

\* C22: the session is launched before the first login attempt; the navigate
\* stage begins exactly when a login attempt returns, the extract stage
\* exactly when a navigate attempt returns; extraction is called at most
\* once, and once in every run that returns a record; the snapshot is
\* written only after extraction returned; cleanup comes after all stage
\* work and before the caller gets the outcome.
C22_StageOrder ==
    /\ [](/\ calls.do_login >= 1 => (context # "none" /\ calls.new_page = 1)
          /\ calls.goto_profile >= 1 => (calls.do_login >= 1 /\ stage \in {"navigate", "extract"})
          /\ calls.extract_profile_data >= 1 =>
                (calls.goto_profile >= 1 /\ stage = "extract")
          /\ calls.extract_profile_data <= 1
          /\ snapshot.state # "absent" =>
                (calls.extract_profile_data = 1 /\ profile # NoProfile)
          /\ (pc = "fetch_done" /\ outcome.kind = "return") =>
                calls.extract_profile_data = 1
          /\ pc \in {"fetch_done", "done"} =>
                /\ outcome # NoOutcome
                /\ context # "none" => calls.context_close = 1
                /\ browser # "none" => calls.browser_close = 1
          /\ ~InCleanup => (calls.context_close = 0 /\ calls.browser_close = 0))
    /\ [][/\ (stage = "init" /\ stage' # "init") =>
                (stage' = "login" /\ context' # "none" /\ calls.do_login = 0)
          /\ (stage = "login" /\ stage' # "login") =>
                (stage' = "navigate" /\ StageCallReturns)
          /\ (stage = "navigate" /\ stage' # "navigate") =>
                (stage' = "extract" /\ StageCallReturns /\ calls.extract_profile_data = 0)
          /\ stage = "extract" => stage' = "extract"
          /\ InCleanup =>
                /\ InCleanup'
                /\ calls'.do_login = calls.do_login
                /\ calls'.goto_profile = calls.goto_profile
                /\ calls'.extract_profile_data = calls.extract_profile_data
                /\ snapshot' = snapshot
                /\ profile' = profile]_vars

\* C22 witness: a run went through login, navigation, one extraction and
\* the snapshot write, closed its session and handed the record to the CLI.
C22_Witness ==
    /\ pc = "done"
    /\ outcome.kind = "return"
    /\ snapshot.state = "written"
    /\ calls.do_login >= 2
    /\ calls.goto_profile >= 2
    /\ calls.extract_profile_data = 1
    /\ calls.context_close = 1

\* ------------------------------------------------------------------------
\* Failures of the navigate stage
\* ------------------------------------------------------------------------
\* the navigator has returned from an attempt whose direct navigation raised
DirectGotoRaised == pc = "nav_returned" /\ nav.page_goto >= 1 /\ nav.hash_fallback >= 1

\* C23: a navigate attempt whose navigation to the profile URL raised and
\* that is still off the profile page after the fallbacks ends in the error
\* handler of retry_async (to be retried, or reported when it was the last
\* attempt); extraction is never started off the profile page.
C23_NavigateFailureIsRetried ==
    /\ [][(DirectGotoRaised /\ url' # "profile") => pc' = "retry_except"]_vars
    /\ [](stage = "extract" => url = "profile")

\* ------------------------------------------------------------------------
\* The portal challenge in the background task
\* ------------------------------------------------------------------------
\* fetch_itr_profile ended with the portal-challenge error
ChallengeRaised == outcome.kind = "raise" /\ outcome.exc.type = "RuntimeError"

\* C27: when fetch_itr_profile raises the portal-challenge error in the
\* task, the job is not rescheduled: it ends at once with the challenge
\* reason as its result.
C27_ChallengeNotRetriedByTask ==
    (caller = "task" /\ pc = "done" /\ ChallengeRaised) =>
       /\ task.state # "RETRY"
       /\ task.message = ChallengeReason

\* ------------------------------------------------------------------------
\* The navigator
\* ------------------------------------------------------------------------
\* positions inside spa_safe_goto_profile
NavigatorPcs == {"nav_modals", "nav_url_check", "nav_goto", "nav_hash", "nav_arrival"}

\* C24: spa_safe_goto_profile always returns: from each of its steps the
\* run goes on to its next step or to its return, with no error in flight,
\* whether the direct navigation, the hash fallback or the arrival poll
\* failed; the hash fallback runs only right after a direct navigation that
\* raised; the arrival poll runs right after the second modal dismissal,
\* and every return other than the short-circuit comes after that poll.
C24_NavigatorAlwaysReturns ==
    /\ [][(pc \in NavigatorPcs) =>
             (/\ pc' \in NavigatorPcs \cup {"nav_returned"}
              /\ exc' = exc
              /\ primary' = primary)]_vars
    /\ [](nav.active =>
             LET t == nav.steps
             IN  /\ t[1] = "modals"
                 /\ \A k \in DOMAIN t :
                       /\ t[k] \in {"hash", "hash_raised"} =>
                             (k > 1 /\ t[k - 1] = "goto_raised")
                       /\ t[k] \in {"poll", "poll_timeout"} =>
                             (k >= 4 /\ t[k - 1] = "modals" /\ k = Len(t))
                 /\ pc = "nav_returned" =>
                       \/ t = <<"modals", "url_check">> /\ AlreadyOnProfile(nav.entry_url)
                       \/ t[Len(t)] \in {"poll", "poll_timeout"})

\* C24 witness: the navigator returned although the direct navigation and
\* the hash fallback raised and the arrival poll timed out.
C24_Witness ==
    /\ pc = "nav_returned"
    /\ nav.steps = <<"modals", "url_check", "goto_raised", "hash_raised", "modals",
                     "poll_timeout">>
    /\ exc = NoExc

\* ------------------------------------------------------------------------
\* Checkpoints of the modal handlers
\* ------------------------------------------------------------------------
\* C25: the modal handlers have run at the start of the flow (before the
\* first step that works on the login form), after the login steps of every
\* attempt and before its blocker check, before the navigator's URL check,
\* after its navigation, and before the extraction.
C25_ModalCheckpoints ==
    /\ pc = "login_user_id" => modal_at # "none"
    /\ pc = "login_blockers" => modal_at = "post_login"
    /\ pc = "nav_url_check" => modal_at = "pre_navigation"
    /\ (pc = "nav_returned" /\ nav.page_goto >= 1) => modal_at = "post_navigation"
    /\ calls.extract_profile_data >= 1 => modal_at = "pre_extraction"

\* ------------------------------------------------------------------------
\* POST /process on its own: process_itr_profile (profile_controller.py
\* lines 9-31)
\* ------------------------------------------------------------------------
\* values of the body members "userId" and "password": absent, empty, given
BodyUserIds == {None, "", "PANARG", "PANENV"}
BodyPasswords == {None, "", "pwarg", "pwenv"}

\* the body is a JSON object, or request.json() cannot parse it
BodyKinds == {"object", "invalid"}

NoResponse == [status |-> 0, detail |-> "none"]

\* raise HTTPException(status_code=..., detail=...)
HTTPException(status, detail) == [type |-> "HTTPException", status |-> status, detail |-> detail]

\* an exception that is not an HTTPException
OtherError(t) == [type |-> t, status |-> 0, detail |-> "error"]

\* str(e): starlette's HTTPException prints "<status_code>: <detail>"
HttpStr(e) ==
    IF e.type = "HTTPException" THEN ToString(e.status) \o ": " \o e.detail ELSE e.detail

InitProcess ==
    /\ NoRun
    /\ page = NoPage
    /\ wu = NoWu
    /\ dl = NoDl
    /\ runs = NoRuns
    /\ mh = NoMh
    /\ lg = NoLg
    /\ \E k \in BodyKinds, u \in BodyUserIds, w \in BodyPasswords :
          rq = [pc |-> "json", kind |-> k, userId |-> u, password |-> w, queued |-> 0,
                err |-> OtherError("none"), response |-> NoResponse]

\* lines 15-17: body = await request.json(); body.get(...)
ProcessReadBody ==
    /\ rq.pc = "json"
    /\ rq' = IF rq.kind = "invalid"
             THEN [rq EXCEPT !.pc = "except", !.err = OtherError("JSONDecodeError")]
             ELSE [rq EXCEPT !.pc = "validate"]
    /\ UNCHANGED <<mainVars, page, wu, dl, runs, mh, lg>>

\* lines 19-20, inside the try of line 14:
\* if not user_id or not password: raise HTTPException(400, ...)
ProcessValidate ==
    /\ rq.pc = "validate"
    /\ rq' = IF ~Truthy(rq.userId) \/ ~Truthy(rq.password)
             THEN [rq EXCEPT !.pc = "except",
                             !.err = HTTPException(400, "Missing userId or password")]
             ELSE [rq EXCEPT !.pc = "queue"]
    /\ UNCHANGED <<mainVars, page, wu, dl, runs, mh, lg>>

\* line 23: task = fetch_itr_profile_task.delay(user_id, password); the
\* broker may be unreachable
ProcessQueue ==
    /\ rq.pc = "queue"
    /\ \/ rq' = [rq EXCEPT !.pc = "respond", !.queued = @ + 1]
       \/ rq' = [rq EXCEPT !.pc = "except", !.err = OtherError("OperationalError")]
    /\ UNCHANGED <<mainVars, page, wu, dl, runs, mh, lg>>

\* lines 25-29: return {"status": "queued", ...}
ProcessRespond ==
    /\ rq.pc = "respond"
    /\ rq' = [rq EXCEPT !.pc = "done", !.response = [status |-> 200, detail |-> "queued"]]
    /\ UNCHANGED <<mainVars, page, wu, dl, runs, mh, lg>>

\* lines 30-31: except Exception as e: raise HTTPException(500, detail=str(e));
\* HTTPException derives from Exception, so the 400 of line 20 lands here too
ProcessExcept ==
    /\ rq.pc = "except"
    /\ rq' = [rq EXCEPT !.pc = "done",
                        !.response = [status |-> 500, detail |-> HttpStr(rq.err)]]
    /\ UNCHANGED <<mainVars, page, wu, dl, runs, mh, lg>>

NextProcess ==
    \/ ProcessReadBody
    \/ ProcessValidate
    \/ ProcessQueue
    \/ ProcessRespond
    \/ ProcessExcept

SpecProcess == InitProcess /\ [][NextProcess]_vars

\* C28: a body whose userId or password is missing or empty is answered
\* with status 400 and detail "Missing userId or password", and no task is
\* queued; a task is queued only when both are non-empty.
C28_MissingCredentialsAnswered400 ==
    /\ rq.pc # "idle" =>
          (rq.queued > 0 => (Truthy(rq.userId) /\ Truthy(rq.password)))
    /\ (rq.pc = "done" /\ rq.kind = "object"
           /\ (~Truthy(rq.userId) \/ ~Truthy(rq.password))) =>
          /\ rq.queued = 0
          /\ rq.response = [status |-> 400, detail |-> "Missing userId or password"]

\* ------------------------------------------------------------------------
\* One login attempt on its own: do_login (lines 533-553) with
\* robust_fill_user_id_and_continue (164-230) and
\* robust_fill_password_and_submit (233-302), against a page that may or
\* may not show each field and button and may fail any call.
\* ------------------------------------------------------------------------
\* the Continue/Proceed selectors of lines 215-218
ContinueSelectors == 4

InitLogin ==
    /\ NoRun
    /\ page = NoPage
    /\ wu = NoWu
    /\ dl = NoDl
    /\ runs = NoRuns
    /\ mh = NoMh
    /\ rq = NoRq
    /\ lg = [pc |-> "goto", uid |-> "unknown", pwd |-> "unknown", queries |-> 0,
             acts |-> <<>>, blocker |-> FALSE, result |-> "none", cause |-> "none"]

\* an error other than a selector timeout leaves do_login
LgRaise(l) == [l EXCEPT !.pc = "done", !.result = "raised", !.cause = "error"]

\* lines 534-535: page.goto(cfg.login_url, ...); wait_for_timeout(400)
LgGoto ==
    /\ lg.pc = "goto"
    /\ \/ lg' = [lg EXCEPT !.pc = "uid_find"]
       \/ lg' = LgRaise(lg)
    /\ UNCHANGED <<mainVars, page, wu, dl, runs, mh, rq>>

\* variant: a user-id field that is not found is a hard failure
LgFindUserId_Strict ==
    /\ lg.pc = "uid_find"
    /\ \/ lg' = [lg EXCEPT !.uid = "found", !.pc = "uid_fill"]
       \/ lg' = [lg EXCEPT !.uid = "missed", !.pc = "done", !.result = "raised",
                           !.cause = "selector_miss"]
       \/ lg' = LgRaise(lg)
    /\ UNCHANGED <<mainVars, page, wu, dl, runs, mh, rq>>

\* lines 175-183: wait_for_selector for each of the six selectors;
\* PlaywrightTimeoutError -> continue, any other error propagates
LgFindUserId ==
    /\ lg.pc = "uid_find"
    /\ \/ lg' = [lg EXCEPT !.uid = "found", !.pc = "uid_fill"]
       \/ lg' = [lg EXCEPT !.uid = "missed", !.pc = "uid_fill"]
       \/ lg' = LgRaise(lg)
    /\ UNCHANGED <<mainVars, page, wu, dl, runs, mh, rq>>

\* lines 185-212: type the user id, or inject it when typing failed (both
\* failures are swallowed); with no field only a warning is logged
LgFillUserId ==
    /\ lg.pc = "uid_fill"
    /\ IF lg.uid = "found"
       THEN \E a \in {<<"type_user_id">>, <<"inject_user_id">>, <<>>} :
               lg' = [lg EXCEPT !.acts = @ \o a, !.pc = "uid_continue"]
       ELSE lg' = [lg EXCEPT !.pc = "uid_continue"]
    /\ UNCHANGED <<mainVars, page, wu, dl, runs, mh, rq>>

\* lines 215-230: query each Continue/Proceed selector in turn and click the
\* first button whose click succeeds; a failed click is logged, an error
\* of query_selector propagates
LgContinue ==
    /\ lg.pc = "uid_continue"
    /\ \E n \in 1..ContinueSelectors :
          \/ lg' = [lg EXCEPT !.queries = n, !.acts = Append(@, "click_continue"),
                              !.pc = "pwd_wait"]
          \/ /\ n = ContinueSelectors
             /\ lg' = [lg EXCEPT !.queries = n, !.pc = "pwd_wait"]
          \/ lg' = [LgRaise(lg) EXCEPT !.queries = n]
    /\ UNCHANGED <<mainVars, page, wu, dl, runs, mh, rq>>

\* lines 538-545: wait for a password field; on PlaywrightTimeoutError the
\* password step is skipped
LgWaitPassword ==
    /\ lg.pc = "pwd_wait"
    /\ \/ lg' = [lg EXCEPT !.pc = "pwd_find"]
       \/ lg' = [lg EXCEPT !.pwd = "missed", !.pc = "modals"]
       \/ lg' = LgRaise(lg)
    /\ UNCHANGED <<mainVars, page, wu, dl, runs, mh, rq>>

\* lines 242-263: wait_for_selector for each of the five selectors; the
\* auxiliary checkbox may be ticked (its errors are swallowed); with no
\* field: warning and return
LgFindPassword ==
    /\ lg.pc = "pwd_find"
    /\ \E c \in {<<"click_checkbox">>, <<>>} :
          \/ lg' = [lg EXCEPT !.pwd = "found", !.acts = @ \o c, !.pc = "pwd_fill"]
          \/ lg' = [lg EXCEPT !.pwd = "missed", !.acts = @ \o c, !.pc = "modals"]
          \/ lg' = LgRaise(lg)
    /\ UNCHANGED <<mainVars, page, wu, dl, runs, mh, rq>>

\* lines 265-267: fill(""), focus(), keyboard.type(cfg.password): not in a
\* try, an error propagates
LgFillPassword ==
    /\ lg.pc = "pwd_fill"
    /\ \/ lg' = [lg EXCEPT !.acts = Append(@, "type_password"), !.pc = "pwd_submit"]
       \/ lg' = LgRaise(lg)
    /\ UNCHANGED <<mainVars, page, wu, dl, runs, mh, rq>>

\* lines 279-302: click the first submit button whose click succeeds, else
\* press Enter (its failure is swallowed); an error of query_selector
\* propagates
LgSubmit ==
    /\ lg.pc = "pwd_submit"
    /\ \/ \E a \in {<<"click_submit">>, <<"press_enter">>, <<>>} :
             lg' = [lg EXCEPT !.acts = @ \o a, !.pc = "modals"]
       \/ lg' = LgRaise(lg)
    /\ UNCHANGED <<mainVars, page, wu, dl, runs, mh, rq>>

\* lines 547-549: the modal handlers, then wait_for_timeout(700)
LgModals ==
    /\ lg.pc = "modals"
    /\ \/ lg' = [lg EXCEPT !.pc = "blockers"]
       \/ lg' = LgRaise(lg)
    /\ UNCHANGED <<mainVars, page, wu, dl, runs, mh, rq>>

\* lines 551-553: reason = await detect_2fa_blockers(page);
\* if reason: raise RuntimeError(reason); else do_login returns, and
\* retry_async returns with it (line 77)
LgBlockers ==
    /\ lg.pc = "blockers"
    /\ \E bodyHasChallenge \in BOOLEAN :
          lg' = IF Truthy(detect_2fa_blockers(bodyHasChallenge))
                THEN [lg EXCEPT !.pc = "done", !.blocker = TRUE, !.result = "raised",
                                !.cause = "challenge"]
                ELSE [lg EXCEPT !.pc = "done", !.result = "returned"]
    /\ UNCHANGED <<mainVars, page, wu, dl, runs, mh, rq>>

NextLogin ==
    \/ LgGoto
    \/ LgFindUserId
    \/ LgFillUserId
    \/ LgContinue
    \/ LgWaitPassword
    \/ LgFindPassword
    \/ LgFillPassword
    \/ LgSubmit
    \/ LgModals
    \/ LgBlockers

SpecLogin == InitLogin /\ [][NextLogin]_vars

\* the page actions of the attempt so far
LoginActs == {lg.acts[n] : n \in DOMAIN lg.acts}

\* C26: a field that is not found never makes a login step raise (an
\* attempt raises only for an error other than a selector timeout or for
\* the portal challenge); with no user-id field nothing is typed and the
\* Continue buttons are still tried; with no password field nothing is
\* typed or submitted; an attempt that found neither field, met no other
\* error and no blocker text returns, which ends the login stage.
C26_SelectorMissesAreSoft ==
    lg.pc # "idle" =>
       /\ lg.result = "raised" => lg.cause \in {"error", "challenge"}
       /\ (lg.uid = "missed" /\ lg.pc \notin {"uid_fill", "uid_continue"}) =>
             /\ lg.queries >= 1
             /\ LoginActs \cap {"type_user_id", "inject_user_id"} = {}
       /\ lg.pwd = "missed" =>
             LoginActs \cap {"type_password", "click_submit", "press_enter"} = {}
       /\ (lg.pc = "done" /\ lg.uid = "missed" /\ lg.pwd = "missed"
              /\ lg.cause # "error" /\ ~lg.blocker) =>
             lg.result = "returned"

\* C26 witness: neither field was found, all four Continue selectors were
\* queried without a match, and the attempt returned.
C26_Witness ==
    /\ lg.pc = "done"
    /\ lg.uid = "missed"
    /\ lg.pwd = "missed"
    /\ lg.queries = ContinueSelectors
    /\ lg.acts = <<>>
    /\ lg.result = "returned"

====
